---- MODULE Spec2Model ----
(***************************************************************************)
(* Model of the request handlers of astro-client-starter.                  *)
(*                                                                         *)
(* Part 1: the Git Data API commit sequence of api/generate-commit.ts      *)
(* (blob variant) and api/publish.ts (direct-content variant), run by      *)
(* concurrent requests against one repository branch (heads/main).         *)
(* Part 2: the one-time login token endpoint /api/auth-token.              *)
(* Part 3: the pure functions of api/_scraper.ts (normalizeUrl, urlToSlug, *)
(* parseRobotsTxt, extractPageData), each applied to bounded inputs.       *)
(* Part 4: one request to a handler: method and auth checks, the scrape    *)
(* handlers, best-effort tracking and the retry around the LLM call.       *)
(* Part 5: create-site, requests for one client one after another, and    *)
(* the repository that generate-commit and generate-config resolve.       *)
(* Part 6: the edit tracking of concurrent publish requests.               *)
(***************************************************************************)
EXTENDS Integers, Sequences, FiniteSets, TLC

VARIABLES
    gh,          \* the repository on GitHub: head of heads/main, objects, ref log
    req,         \* per handler invocation slot: the handler's local variables
    started,     \* number of commit requests begun so far
    tokenStore,  \* auth-token: the in-memory Map token -> entry
    now,         \* auth-token: Date.now()
    ticks,       \* auth-token: number of clock advances so far
    post,        \* auth-token: POST invocations suspended in await getUser
    nextToken,   \* auth-token: next value of crypto.randomBytes
    issued,      \* history: token -> entry as stored by the POST that returned it
    validCount,  \* history: token -> number of GETs answered valid: true
    lastGet,     \* history: the last GET response
    call,        \* _scraper: the function applied and its arguments
    ret,         \* _scraper: what the function returned
    api,         \* one request to a handler: its input, position, calls and response
    site,        \* create-site: GitHub, Vercel, the client record and the request
    track        \* publish edit tracking: the client record and the requests

vars == <<gh, req, started, tokenStore, now, ticks, post, nextToken, issued, validCount, lastGet,
          call, ret, api, site, track>>

commitVars == <<gh, req, started>>
tokenVars == <<tokenStore, now, ticks, post, nextToken, issued, validCount, lastGet>>
scraperVars == <<call, ret>>
apiVars == <<api>>
siteVars == <<site>>
trackVars == <<track>>

(***************************************************************************)
(* Bounds                                                                  *)
(***************************************************************************)
MaxRequests == 2     \* commit requests begun in one behaviour
MaxTokens == 2       \* one-time tokens created in one behaviour
MaxTicks == 2        \* advances of the clock in one behaviour
MaxPathLen == 4      \* pieces of the path of a URL handed to _scraper
MaxLines == 4        \* lines of a robots.txt
MaxBlocks == 3       \* JSON-LD script elements of a page
MaxLinks == 2        \* links of a homepage, and entries of a sitemap
\* create-site requests for the client, one after another
MaxInvocations == 2
\* publish requests for one client at the same time
MaxPublishers == 2

(***************************************************************************)
(* Part 1. Repository objects                                              *)
(***************************************************************************)
Reqs == {"r1", "r2"}

Paths == {"a.astro", "b.astro"}
NoFile == "<absent>"
Contents == {"A", "B", "QQ=="}

\* A tree maps each path to the bytes of its blob; a tree SHA is content
\* addressed, so the tree value stands for its SHA.
EmptyTree == [p \in Paths |-> NoFile]
InitTree == [p \in Paths |-> IF p = "a.astro" THEN "A" ELSE NoFile]

\* Commit SHAs are positions in gh.commits; 0 is "no commit".
NoCommit == 0
InitCommit == 1

\* Decoding of a base64 blob body by the blob endpoint.
Base64Decode(s) ==
    CASE s = "QQ==" -> "A"
      [] s = "Qg==" -> "B"
      [] OTHER -> NoFile

\* The bytes of the blob the blob endpoint stores for (content, encoding).
BlobBytes(content, encoding) ==
    IF encoding = "base64" THEN Base64Decode(content) ELSE content

NoSha == <<>>
BlobSha(bytes) == <<"blob", bytes>>


(***************************************************************************)
(* Part 1. Requests                                                        *)
(***************************************************************************)
Variants == {"generate-commit", "publish"}

NoEncoding == "<undefined>"
File(p, c, e) == [path |-> p, content |-> c, encoding |-> e]

\* Request bodies: the files of generate-commit (path, content, encoding?)
\* and the edits of publish (filePath, modifiedCode; no encoding is read).
FileLists ==
    { <<File("a.astro", "B", "utf-8"), File("b.astro", "A", NoEncoding)>>,
      <<File("b.astro", "QQ==", "base64")>> }

Steps == {"getRef", "getCommit", "createBlob", "createTree", "createCommit", "patchRef"}

BlankCall ==
    [kind |-> "", idx |-> 0, sha |-> NoCommit, base_tree |-> EmptyTree,
     entries |-> <<>>, tree |-> EmptyTree, parents |-> <<>>,
     content |-> "", encoding |-> "", force |-> FALSE]

NoBody == "<no body>"
NoFailure == [status |-> 0, body |-> NoBody]
NoMessage == [text |-> "", status |-> 0, body |-> NoBody]

IdleReq ==
    [id |-> 0, variant |-> "", files |-> <<>>, pc |-> "idle",
     headSha |-> NoCommit, baseTreeSha |-> EmptyTree, treeEntries |-> <<>>,
     treeSha |-> EmptyTree, newCommitSha |-> NoCommit,
     inflight |-> <<>>, calls |-> <<>>, results |-> <<>>,
     status |-> 0, message |-> NoMessage, failure |-> NoFailure,
     headBefore |-> NoCommit, headAfter |-> NoCommit,
     logBefore |-> 0, logAfter |-> 0]

\* Non-2xx responses a GitHub call may return.
ErrResponses == { [status |-> 500, body |-> "Server Error"] }
NotFastForward == [status |-> 422, body |-> "Update is not a fast forward"]

(***************************************************************************)
(* The handlers' side of each step                                         *)
(***************************************************************************)
\* generate-commit.ts:114  encoding: file.encoding || 'utf-8'
EncodingSent(file) == IF file.encoding = NoEncoding THEN "utf-8" ELSE file.encoding

\* generate-commit.ts:124-129  the tree entry pushed for a created blob
BlobEntry(file, sha) ==
    [path |-> file.path, mode |-> "100644", type |-> "blob", sha |-> sha, content |-> ""]

\* Mutant of ContentEntry: the entry carries no content.
ContentEntryEmpty(file) ==
    [path |-> file.path, mode |-> "100644", type |-> "blob", sha |-> NoSha, content |-> ""]

\* publish.ts:97-102  edits.map(edit => ({path, mode, type, content}))
ContentEntry(file) ==
    [path |-> file.path, mode |-> "100644", type |-> "blob", sha |-> NoSha,
     content |-> file.content]

PublishTree(files) == [i \in 1..Len(files) |-> ContentEntry(files[i])]

\* The entries sent in the tree-creation call.
TreeBody(q) ==
    IF q.variant = "publish" THEN PublishTree(q.files) ELSE q.treeEntries

\* Mutant of CommitParents: the commit is created without parents.
CommitNoParents(q) == <<>>

\* parents: [headSha] / parents: [currentCommitSha]
CommitParents(q) == <<q.headSha>>

\* Mutant of PatchForce: the ref update is forced.
PatchForced(q) == TRUE

\* Mutant of PatchSha: the ref is patched to the head that was read.
PatchShaHead(q) == q.headSha

\* sha: newCommitData.sha / sha: newCommit.sha
PatchSha(q) == q.newCommitSha

\* body of the ref PATCH: { sha } only, so force is GitHub's default (false)
PatchForce(q) == FALSE

\* The call the handler issues at its current step.
NextCall(q) ==
    CASE q.pc = "getRef" -> [BlankCall EXCEPT !.kind = "getRef"]
      [] q.pc = "getCommit" -> [BlankCall EXCEPT !.kind = "getCommit", !.sha = q.headSha]
      [] q.pc = "createBlob" ->
            LET i == Len(q.treeEntries) + 1 IN
            [BlankCall EXCEPT !.kind = "createBlob", !.idx = i,
                              !.content = q.files[i].content,
                              !.encoding = EncodingSent(q.files[i])]
      [] q.pc = "createTree" ->
            [BlankCall EXCEPT !.kind = "createTree", !.base_tree = q.baseTreeSha,
                              !.entries = TreeBody(q)]
      [] q.pc = "createCommit" ->
            [BlankCall EXCEPT !.kind = "createCommit", !.tree = q.treeSha,
                              !.parents = CommitParents(q)]
      [] q.pc = "patchRef" ->
            [BlankCall EXCEPT !.kind = "patchRef", !.sha = PatchSha(q),
                              !.force = PatchForce(q)]

\* Mutant of CanIssue: a call is issued without awaiting the previous one.
CanIssueAlways(q) == TRUE

\* await: the next call is issued only when the previous one has returned.
CanIssue(q) == q.inflight = <<>>

\* The step after the head commit was read: publish has no blob loop.
AfterGetCommit(q) == IF q.variant = "publish" THEN "createTree" ELSE "createBlob"

\* Mutant of AfterBlob: the loop ends after the first file.
AfterBlobFirstOnly(q, entries) == "createTree"

\* for (const file of files): one more blob while entries are missing.
AfterBlob(q, entries) ==
    IF Len(entries) < Len(q.files) THEN "createBlob" ELSE "createTree"

\* The Error thrown for a non-2xx response, as caught and sent with 500.
\* generate-commit reads the body for blob, tree, commit and ref update only;
\* ghApi of publish reads it for every call.
ErrorMessage(variant, kind, err) ==
    IF variant = "publish"
    THEN [text |-> "GitHub API error", status |-> err.status, body |-> err.body]
    ELSE CASE kind = "getRef" ->
                [text |-> "Failed to get HEAD ref", status |-> err.status, body |-> NoBody]
           [] kind = "getCommit" ->
                [text |-> "Failed to get commit", status |-> err.status, body |-> NoBody]
           [] kind = "createBlob" ->
                [text |-> "Failed to create blob", status |-> err.status, body |-> err.body]
           [] kind = "createTree" ->
                [text |-> "Failed to create tree", status |-> err.status, body |-> err.body]
           [] kind = "createCommit" ->
                [text |-> "Failed to create commit", status |-> err.status, body |-> err.body]
           [] kind = "patchRef" ->
                [text |-> "Failed to update ref", status |-> err.status, body |-> err.body]

(***************************************************************************)
(* GitHub's side of each call                                              *)
(***************************************************************************)
\* Bytes a tree entry stands for: the blob named by sha, or inline content
\* (for which GitHub creates the blob).
EntryBytes(e) == IF e.sha # NoSha THEN e.sha[2] ELSE e.content

\* POST /git/trees: entries are laid over base_tree by path, in list order.
RECURSIVE OverlayTree(_, _)
OverlayTree(base, entries) ==
    IF entries = <<>> THEN base
    ELSE OverlayTree([base EXCEPT ![Head(entries).path] = EntryBytes(Head(entries))],
                     Tail(entries))

\* Is commit a reachable from commit c through parents (or equal to it)?
RECURSIVE IsAncestor(_, _, _)
IsAncestor(commits, a, c) ==
    \/ a = c
    \/ \E i \in 1..Len(commits[c].parents) : IsAncestor(commits, a, commits[c].parents[i])

\* PATCH /git/refs/heads/main: without force only a fast-forward is accepted.
\* An unknown SHA is refused.
PatchAccepted(g, c) ==
    /\ c.sha \in 1..Len(g.commits)
    /\ c.force \/ IsAncestor(g.commits, g.head, c.sha)

(***************************************************************************)
(* Part 2. The one-time token store of /api/auth-token                     *)
(***************************************************************************)
TOKEN_TTL_MS == 60000

\* Tokens are the successive values of crypto.randomBytes(32): each is new.
Tokens == 1..MaxTokens
\* A token value no POST ever returned.
UnknownToken == 0

NoEntry == [present |-> FALSE, email |-> "", sessionToken |-> "", expiresAt |-> 0]

\* Session tokens a POST body may carry, and the user getUser finds for them
\* while the session is good ("s2" is a user without email).
SessionTokens == {"s1", "s2"}
GetUser(s) ==
    IF s = "s1" THEN [email |-> "a@x.com"] ELSE [email |-> NoBody]

\* email: data.user.email || ''
StoredEmail(user) == IF user.email = NoBody THEN "" ELSE user.email

\* if (val.expiresAt < now)
Expired(entry, t) == entry.expiresAt < t

\* Mutant of CleanupExpired: nothing is deleted.
CleanupNone(store, t) == store

\* cleanupExpired(): every entry with expiresAt < Date.now() is deleted.
CleanupExpired(store, t) ==
    [k \in DOMAIN store |->
        IF store[k].present /\ Expired(store[k], t) THEN NoEntry ELSE store[k]]

\* tokenStore.set(token, {email, sessionToken, expiresAt: Date.now() + TTL})
StoreSet(store, token, user, supabaseToken, t) ==
    [store EXCEPT ![token] =
        [present |-> TRUE, email |-> StoredEmail(user),
         sessionToken |-> supabaseToken, expiresAt |-> t + TOKEN_TTL_MS]]

\* tokenStore.delete(token)
StoreDelete(store, token) ==
    IF token \in DOMAIN store THEN [store EXCEPT ![token] = NoEntry] ELSE store

\* tokenStore.get(token)
StoreGet(store, token) == IF token \in DOMAIN store THEN store[token] ELSE NoEntry

PostSlots == {"p1", "p2"}
\* Each slot is one client posting its own session token.
SessionOf(p) == IF p = "p1" THEN "s1" ELSE "s2"
IdlePost == [pc |-> "idle", supabaseToken |-> "", beganAt |-> 0]

NoIssue == [returned |-> FALSE, email |-> "", sessionToken |-> "", createdAt |-> 0]
NoGet == [token |-> UnknownToken, status |-> 0, valid |-> FALSE, email |-> "",
          sessionToken |-> "", at |-> 0]

InitTokenVars ==
    /\ tokenStore = [k \in Tokens |-> NoEntry]
    /\ now = 0
    /\ ticks = 0
    /\ post = [p \in PostSlots |-> IdlePost]
    /\ nextToken = 1
    /\ issued = [k \in Tokens |-> NoIssue]
    /\ validCount = [k \in Tokens |-> 0]
    /\ lastGet = NoGet

(***************************************************************************)
(* Part 1. Initial state and actions                                       *)
(***************************************************************************)
InitGh ==
    [head |-> InitCommit,
     commits |-> <<[tree |-> InitTree, parents |-> <<>>, by |-> 0]>>,
     blobs |-> {"A"},
     trees |-> {InitTree},
     refLog |-> <<>>]

InitCommitVars ==
    /\ gh = InitGh
    /\ req = [r \in Reqs |-> IdleReq]
    /\ started = 0

\* No function of _scraper has been applied.
NoCall == [fn |-> "none"]
NotCalled == [called |-> FALSE]

InitScraperVars ==
    /\ call = NoCall
    /\ ret = NotCalled

\* No request is being handled.
NoStatus == 0
IdleApi ==
    [handler |-> "none", method |-> "", auth |-> "", pc |-> "idle", calls |-> <<>>,
     step |-> 0, status |-> NoStatus, success |-> FALSE, skipped |-> FALSE,
     fetched |-> "", upload |-> "", refUpdated |-> FALSE, newCommitSha |-> "",
     commitSha |-> "", tracking |-> <<>>, llm |-> <<>>, fetches |-> <<>>, finalUrl |-> <<>>,
     generated |-> <<>>, disallowed |-> <<>>, sitemap_urls |-> <<>>, checks |-> {},
     pages_to_scrape |-> <<>>]

InitApiVars == api = IdleApi

\* create-site: no repository, project or environment variable yet, a
\* client record in status "setup" without repository coordinates, and no
\* request.
GITHUB_OWNER == "Bochi-Web"
TEMPLATE_REPO == "astro-client-starter"
NoCoordinates == [github_owner |-> "", github_repo |-> ""]
ClientName == "Acme Plumbing"
IdleCreateSite ==
    [pc |-> "idle", readStatus |-> "", slug |-> "", completedSteps |-> <<>>, calls |-> <<>>,
     vars |-> <<>>, status |-> NoStatus, withSteps |-> FALSE, updated |-> FALSE]
NoResolution == [pc |-> "idle", provisioned |-> FALSE, owner |-> "", repo |-> ""]
IdleSite ==
    [repos |-> {}, projects |-> {}, env |-> {}, deployments |-> 0,
     client |-> [client_name |-> ClientName, status |-> "setup", columns |-> NoCoordinates,
                 site_config |-> NoCoordinates],
     invocations |-> 0, r |-> IdleCreateSite, activatedIn |-> IdleCreateSite,
     commit |-> NoResolution, config |-> NoResolution]
InitSiteVars == site = IdleSite

\* slugify(name)
Slugify(name) == CASE name = "Acme Plumbing" -> "acme-plumbing" [] OTHER -> ""

\* publish edit tracking: a client record and no request.
Publishers == 1..MaxPublishers
IdlePublisher == [pc |-> "idle", edits |-> 0, total_edits |-> 0, tracked |-> FALSE]
IdleTrack ==
    [total_edits |-> 0, before |-> 0, history |-> 0,
     reqs |-> [r \in Publishers |-> IdlePublisher]]
InitTrackVars == track = IdleTrack

Init ==
    /\ InitCommitVars
    /\ InitTokenVars
    /\ InitScraperVars
    /\ InitApiVars
    /\ InitSiteVars
    /\ InitTrackVars

\* The handler was entered and has checked the body; the commit sequence is
\* about to start.
Begun(r, variant, files) ==
    [IdleReq EXCEPT !.id = started + 1, !.variant = variant, !.files = files,
                    !.pc = "getRef",
                    !.headBefore = gh.head, !.logBefore = Len(gh.refLog)]

\* The response is sent; the head at that moment is recorded.
Finished(q, status, message) ==
    [q EXCEPT !.pc = "done", !.inflight = <<>>, !.status = status,
              !.message = message,
              !.headAfter = gh.head, !.logAfter = Len(gh.refLog)]

\* A request arrives with a non-empty list of files (edits).
StartRequest(r) ==
    /\ req[r].pc \in {"idle", "done"}
    /\ started < MaxRequests
    /\ \E variant \in Variants, files \in FileLists :
          req' = [req EXCEPT ![r] = Begun(r, variant, files)]
    /\ started' = started + 1
    /\ UNCHANGED <<gh, tokenVars, scraperVars, apiVars, siteVars, trackVars>>

\* A request arrives with an empty list: 400, no GitHub call.
RejectEmpty(r) ==
    /\ req[r].pc \in {"idle", "done"}
    /\ started < MaxRequests
    /\ \E variant \in Variants :
          req' = [req EXCEPT ![r] =
                     Finished([Begun(r, variant, <<>>) EXCEPT !.headSha = NoCommit],
                              400, [NoMessage EXCEPT !.text = "Missing required fields"])]
    /\ started' = started + 1
    /\ UNCHANGED <<gh, tokenVars, scraperVars, apiVars, siteVars, trackVars>>

\* The handler issues the call of its current step.
Issue(r) ==
    /\ req[r].pc \in Steps
    /\ CanIssue(req[r])
    /\ LET c == NextCall(req[r]) IN
          req' = [req EXCEPT ![r].inflight = Append(@, c), ![r].calls = Append(@, c)]
    /\ UNCHANGED <<gh, started, tokenVars, scraperVars, apiVars, siteVars, trackVars>>

\* The call in flight of request r, of the given kind.
Pending(r, kind) ==
    /\ req[r].inflight # <<>>
    /\ Head(req[r].inflight).kind = kind

Returned(q, status) ==
    [q EXCEPT !.inflight = Tail(@), !.results = Append(@, status)]

\* GET /git/ref/heads/main answers 200 with the current head.
ReturnGetRef(r) ==
    /\ Pending(r, "getRef")
    /\ req' = [req EXCEPT ![r] =
                  [Returned(@, 200) EXCEPT !.headSha = gh.head, !.pc = "getCommit"]]
    /\ UNCHANGED <<gh, started, tokenVars, scraperVars, apiVars, siteVars, trackVars>>

\* GET /git/commits/:sha answers 200 with the commit's tree.
ReturnGetCommit(r) ==
    /\ Pending(r, "getCommit")
    /\ LET c == Head(req[r].inflight) IN
       /\ c.sha \in 1..Len(gh.commits)
       /\ req' = [req EXCEPT ![r] =
                     [Returned(@, 200) EXCEPT !.baseTreeSha = gh.commits[c.sha].tree,
                                              !.pc = AfterGetCommit(req[r])]]
    /\ UNCHANGED <<gh, started, tokenVars, scraperVars, apiVars, siteVars, trackVars>>

\* POST /git/blobs answers 201 with the SHA of the stored blob.
ReturnCreateBlob(r) ==
    /\ Pending(r, "createBlob")
    /\ LET c == Head(req[r].inflight)
           bytes == BlobBytes(c.content, c.encoding)
           entries == Append(req[r].treeEntries,
                             BlobEntry(req[r].files[c.idx], BlobSha(bytes)))
       IN
       /\ gh' = [gh EXCEPT !.blobs = @ \cup {bytes}]
       /\ req' = [req EXCEPT ![r] =
                     [Returned(@, 201) EXCEPT !.treeEntries = entries,
                                              !.pc = AfterBlob(req[r], entries)]]
    /\ UNCHANGED <<started, tokenVars, scraperVars, apiVars, siteVars, trackVars>>

\* POST /git/trees answers 201 with the SHA of the new tree.
ReturnCreateTree(r) ==
    /\ Pending(r, "createTree")
    /\ LET c == Head(req[r].inflight)
           t == OverlayTree(c.base_tree, c.entries)
       IN
       /\ c.base_tree \in gh.trees
       /\ \A i \in 1..Len(c.entries) : EntryBytes(c.entries[i]) \in
                                          gh.blobs \cup {c.entries[i].content}
       /\ gh' = [gh EXCEPT !.trees = @ \cup {t},
                           !.blobs = @ \cup {EntryBytes(c.entries[i]) : i \in 1..Len(c.entries)}]
       /\ req' = [req EXCEPT ![r] =
                     [Returned(@, 201) EXCEPT !.treeSha = t, !.pc = "createCommit"]]
    /\ UNCHANGED <<started, tokenVars, scraperVars, apiVars, siteVars, trackVars>>

\* POST /git/commits answers 201 with the SHA of a new commit object.
ReturnCreateCommit(r) ==
    /\ Pending(r, "createCommit")
    /\ LET c == Head(req[r].inflight) IN
       /\ c.tree \in gh.trees
       /\ gh' = [gh EXCEPT !.commits =
                    Append(@, [tree |-> c.tree, parents |-> c.parents, by |-> req[r].id])]
       /\ req' = [req EXCEPT ![r] =
                     [Returned(@, 201) EXCEPT !.newCommitSha = Len(gh.commits) + 1,
                                              !.pc = "patchRef"]]
    /\ UNCHANGED <<started, tokenVars, scraperVars, apiVars, siteVars, trackVars>>

\* PATCH /git/refs/heads/main is accepted: the ref moves, the handler
\* answers 200.
ReturnPatchRef(r) ==
    /\ Pending(r, "patchRef")
    /\ LET c == Head(req[r].inflight) IN
       /\ PatchAccepted(gh, c)
       /\ gh' = [gh EXCEPT !.head = c.sha,
                           !.refLog = Append(@, [by |-> req[r].id, from |-> gh.head,
                                                 to |-> c.sha])]
       /\ req' = [req EXCEPT ![r] =
                     [Finished(Returned(@, 200), 200, NoMessage)
                          EXCEPT !.headAfter = c.sha, !.logAfter = Len(gh.refLog) + 1]]
    /\ UNCHANGED <<started, tokenVars, scraperVars, apiVars, siteVars, trackVars>>

\* Mutant of Thrown: the response is not checked, the handler goes on to the
\* ref update.
ThrownUnchecked(q, err) == [Returned(q, err.status) EXCEPT !.pc = "patchRef"]

\* Mutant of Thrown: the failed step is tried again.
ThrownRetry(q, err) == Returned(q, err.status)

\* The handler's catch block: the failing call's error is sent with 500.
Thrown(q, err) ==
    [Finished(Returned(q, err.status), 500,
              ErrorMessage(q.variant, Head(q.inflight).kind, err))
       EXCEPT !.failure = err]

\* PATCH /git/refs/heads/main is refused as not a fast-forward: 422.
RejectPatchRef(r) ==
    /\ Pending(r, "patchRef")
    /\ ~PatchAccepted(gh, Head(req[r].inflight))
    /\ req' = [req EXCEPT ![r] = Thrown(@, NotFastForward)]
    /\ UNCHANGED <<gh, started, tokenVars, scraperVars, apiVars, siteVars, trackVars>>

\* Any call in flight may return non-2xx without effect on the repository.
Fail(r) ==
    /\ req[r].inflight # <<>>
    /\ \E err \in ErrResponses :
          req' = [req EXCEPT ![r] = Thrown(@, err)]
    /\ UNCHANGED <<gh, started, tokenVars, scraperVars, apiVars, siteVars, trackVars>>

Next ==
    \E r \in Reqs :
        \/ StartRequest(r)
        \/ RejectEmpty(r)
        \/ Issue(r)
        \/ ReturnGetRef(r)
        \/ ReturnGetCommit(r)
        \/ ReturnCreateBlob(r)
        \/ ReturnCreateTree(r)
        \/ ReturnCreateCommit(r)
        \/ ReturnPatchRef(r)
        \/ RejectPatchRef(r)
        \/ Fail(r)

Spec == Init /\ [][Next]_vars

(***************************************************************************)
(* Part 1. Properties of the commit sequence                               *)
(***************************************************************************)
Ok(status) == status \in 200..299

Kinds(q) == [i \in 1..Len(q.calls) |-> q.calls[i].kind]

\* Positions of the ref log written by request number id.
MovesBy(id) == {i \in 1..Len(gh.refLog) : gh.refLog[i].by = id}

\* Some call of q other than the ref PATCH has returned non-2xx.
FailedBeforePatch(q) ==
    \E i \in 1..Len(q.results) : ~Ok(q.results[i]) /\ q.calls[i].kind # "patchRef"

\* C1: in both handlers, once a call that precedes the ref PATCH has returned
\* non-2xx, the request issues no ref PATCH and never moves the branch head:
\* when no other request moved the head meanwhile, the head at the response
\* is the head at the start of the request.
C1_NoPatchAfterFailure ==
    \A r \in Reqs :
        FailedBeforePatch(req[r]) =>
            /\ \A i \in 1..Len(req[r].calls) : req[r].calls[i].kind # "patchRef"
            /\ MovesBy(req[r].id) = {}
            /\ req[r].pc = "done"
            /\ req[r].status = 500
            /\ (req[r].logAfter = req[r].logBefore
                    => req[r].headAfter = req[r].headBefore)

\* The tree-creation call of a generate-commit and of a publish request has
\* failed, and the head is where it was.
C1_Witness ==
    /\ req["r1"].variant = "generate-commit"
    /\ req["r2"].variant = "publish"
    /\ \A r \in Reqs :
          /\ req[r].status = 500
          /\ Len(req[r].calls) > 0
          /\ req[r].calls[Len(req[r].calls)].kind = "createTree"
          /\ req[r].headAfter = req[r].headBefore
    /\ gh.head = InitCommit

\* The bytes a request asks for at a path.
RequestedBytes(variant, file) ==
    IF variant = "publish" THEN file.content
    ELSE IF file.encoding = "base64" THEN Base64Decode(file.content) ELSE file.content

HoldsAllFiles(tree, q) ==
    \A i \in 1..Len(q.files) : tree[q.files[i].path] = RequestedBytes(q.variant, q.files[i])

\* C2: a request moves the branch head at most once, and only to the one
\* commit it created, whose tree holds every file of the request with the
\* requested content; a request that answered anything but 200 has not moved
\* the head, and one that answered 200 has.
C2_AllOrNothing ==
    \A r \in Reqs :
        LET q == req[r]
            moves == MovesBy(q.id)
        IN
        /\ Cardinality(moves) <= 1
        /\ Cardinality({c \in 1..Len(gh.commits) : gh.commits[c].by = q.id /\ q.id # 0}) <= 1
        /\ \A i \in moves :
              /\ gh.refLog[i].to = q.newCommitSha
              /\ gh.commits[q.newCommitSha].by = q.id
              /\ HoldsAllFiles(gh.commits[gh.refLog[i].to].tree, q)
        /\ (q.pc = "done" => (q.status = 200 <=> moves # {}))

\* A request with two files has moved the head.
C2_Witness ==
    \E r \in Reqs :
        /\ req[r].status = 200
        /\ Len(req[r].files) = 2
        /\ gh.head = req[r].newCommitSha

\* C3: when two requests read the same head and one of them has moved the
\* ref from it, the other one, once its ref PATCH has returned, has got a
\* non-2xx answer, ends with 500 and has not moved the ref; with no third
\* update in between the head is still the first request's commit.
C3_NonForceUpdate ==
    \A r1 \in Reqs, r2 \in Reqs :
        (/\ r1 # r2
         /\ req[r1].headSha # NoCommit
         /\ req[r1].headSha = req[r2].headSha
         /\ MovesBy(req[r1].id) # {}
         /\ req[r2].pc = "done"
         /\ \E i \in 1..Len(req[r2].calls) : req[r2].calls[i].kind = "patchRef")
        => /\ req[r2].status = 500
           /\ ~Ok(req[r2].results[Len(req[r2].results)])
           /\ MovesBy(req[r2].id) = {}
           /\ (MovesBy(req[r1].id) = {req[r2].logAfter}
                   => req[r2].headAfter = req[r1].newCommitSha)

\* Both requests read the initial head, r1 moved the ref, r2's PATCH was
\* refused as not a fast-forward.
C3_Witness ==
    /\ req["r1"].headSha = InitCommit
    /\ req["r2"].headSha = InitCommit
    /\ req["r1"].status = 200
    /\ req["r2"].status = 500
    /\ req["r2"].failure = NotFastForward
    /\ gh.head = req["r1"].newCommitSha

\* The order of the calls of a request.
ExpectedKinds(q) ==
    <<"getRef", "getCommit">>
    \o (IF q.variant = "generate-commit"
        THEN [i \in 1..Len(q.files) |-> "createBlob"] ELSE <<>>)
    \o <<"createTree", "createCommit", "patchRef">>

IsPrefix(s, t) == Len(s) <= Len(t) /\ \A i \in 1..Len(s) : s[i] = t[i]

\* C4: the calls of a request are issued in the order ref, commit, one blob
\* per file in list order (generate-commit only), tree, commit, ref PATCH;
\* at most one call is in flight, and every call before the last issued one
\* has returned 2xx.
C4_Sequential ==
    \A r \in Reqs :
        LET q == req[r] IN
        /\ IsPrefix(Kinds(q), ExpectedKinds(q))
        /\ \A i \in 1..Len(q.calls) :
              q.calls[i].kind = "createBlob" =>
                  /\ q.calls[i].idx = i - 2
                  /\ q.calls[i].content = q.files[i - 2].content
        /\ Len(q.inflight) <= 1
        /\ Len(q.results) = Len(q.calls) - Len(q.inflight)
        /\ (q.inflight # <<>> => Head(q.inflight) = q.calls[Len(q.calls)])
        /\ \A i \in 1..Len(q.results) : i < Len(q.calls) => Ok(q.results[i])

\* A generate-commit request with two files has its ref PATCH in flight
\* after seven calls.
C4_Witness ==
    \E r \in Reqs :
        /\ req[r].variant = "generate-commit"
        /\ Len(req[r].files) = 2
        /\ Len(req[r].calls) = 7
        /\ Len(req[r].inflight) = 1
        /\ Head(req[r].inflight).kind = "patchRef"

\* C5: the tree-creation call carries as base_tree the tree of the commit
\* the request read as head; the commit-creation call carries as tree the
\* tree created in this request and as parents exactly that head; and the
\* commit object created has that tree and that single parent.
C5_BaseTreeAndParent ==
    \A r \in Reqs :
        LET q == req[r] IN
        /\ \A i \in 1..Len(q.calls) :
              /\ q.calls[i].kind = "createTree" =>
                    /\ q.headSha \in 1..Len(gh.commits)
                    /\ q.calls[i].base_tree = gh.commits[q.headSha].tree
              /\ (q.calls[i].kind = "createCommit" /\ i - 1 <= Len(q.results)) =>
                    /\ q.calls[i].parents = <<q.headSha>>
                    /\ q.calls[i].tree = q.treeSha
                    /\ q.treeSha = OverlayTree(q.calls[i - 1].base_tree, q.calls[i - 1].entries)
        /\ q.newCommitSha # NoCommit =>
              /\ gh.commits[q.newCommitSha].parents = <<q.headSha>>
              /\ gh.commits[q.newCommitSha].tree = q.treeSha

\* A request has created its commit on a head that is not the initial commit.
C5_Witness ==
    \E r \in Reqs :
        /\ req[r].newCommitSha # NoCommit
        /\ req[r].headSha # InitCommit
        /\ gh.commits[req[r].newCommitSha].parents = <<req[r].headSha>>

\* C6: no call of a request is issued twice (a blob once per file), and no
\* call is issued after one that returned non-2xx.
C6_NoRetry ==
    \A r \in Reqs :
        LET q == req[r] IN
        /\ \A i \in 1..Len(q.calls), j \in 1..Len(q.calls) :
              (i # j /\ q.calls[i].kind = q.calls[j].kind) =>
                  /\ q.calls[i].kind = "createBlob"
                  /\ q.calls[i].idx # q.calls[j].idx
        /\ \A i \in 1..Len(q.results) : ~Ok(q.results[i]) => i = Len(q.calls)
        /\ (q.failure # NoFailure => q.pc = "done" /\ q.inflight = <<>>)

\* The second blob creation of a request has failed.
C6_Witness ==
    \E r \in Reqs :
        /\ req[r].status = 500
        /\ Len(req[r].calls) = 4
        /\ req[r].calls[4].kind = "createBlob"
        /\ ~Ok(req[r].results[4])

\* C7: whenever a call of the commit sequence returns non-2xx, the request
\* ends with 500 and a message carrying the status and the response body of
\* that call, at every step of both variants.
C7_StatusAndBody ==
    \A r \in Reqs :
        req[r].failure # NoFailure =>
            /\ req[r].status = 500
            /\ req[r].message.status = req[r].failure.status
            /\ req[r].message.body = req[r].failure.body

\* C8: of two successive successful requests with identical file lists (the
\* second begun when the first had answered, no other ref update between), the
\* second creates a commit distinct from the first's, with the first's commit
\* as its sole parent, and the head is that second commit when it answers,
\* also when the tree did not change.
C8_NotIdempotent ==
    \A r1 \in Reqs, r2 \in Reqs :
        (/\ r1 # r2
         /\ req[r1].status = 200
         /\ req[r2].status = 200
         /\ req[r1].files = req[r2].files
         /\ req[r2].logBefore = req[r1].logAfter)
        => /\ req[r2].newCommitSha # req[r1].newCommitSha
           /\ gh.commits[req[r2].newCommitSha].parents = <<req[r1].newCommitSha>>
           /\ req[r2].headAfter = req[r2].newCommitSha
           /\ gh.refLog[req[r2].logAfter].to = req[r2].newCommitSha

\* Two successive identical requests succeeded and left the tree as it was.
C8_Witness ==
    /\ req["r1"].status = 200
    /\ req["r2"].status = 200
    /\ req["r1"].variant = req["r2"].variant
    /\ req["r1"].files = req["r2"].files
    /\ req["r2"].headBefore = req["r1"].newCommitSha
    /\ gh.commits[req["r2"].newCommitSha].tree = gh.commits[req["r1"].newCommitSha].tree
    /\ gh.head = req["r2"].newCommitSha

Utf8Only(files) == \A i \in 1..Len(files) : EncodingSent(files[i]) = "utf-8"

\* The tree that lays the files' contents over base, path by path.
LaidOver(base, files) ==
    [p \in Paths |->
        IF \E i \in 1..Len(files) : files[i].path = p
        THEN LET last == CHOOSE i \in 1..Len(files) :
                            /\ files[i].path = p
                            /\ \A j \in 1..Len(files) : files[j].path = p => j <= i
             IN files[last].content
        ELSE base[p]]

\* C9: publish issues no blob creation; and a successful request of either
\* variant with UTF-8 contents leaves as new head commit the one whose parent
\* is the head it read and whose tree is the files laid over that head's
\* tree, so both variants give the same parent and tree from the same state
\* and list.
C9_VariantsAgree ==
    /\ \A r \in Reqs :
          LET q == req[r] IN
          /\ q.variant = "publish" =>
                \A i \in 1..Len(q.calls) : q.calls[i].kind # "createBlob"
          /\ (q.status = 200 /\ Utf8Only(q.files)) =>
                /\ gh.commits[q.newCommitSha].parents = <<q.headSha>>
                /\ gh.commits[q.newCommitSha].tree =
                       LaidOver(gh.commits[q.headSha].tree, q.files)
                /\ q.headAfter = q.newCommitSha
    /\ \A r1 \in Reqs, r2 \in Reqs :
          (/\ req[r1].variant = "publish"
           /\ req[r2].variant = "generate-commit"
           /\ req[r1].newCommitSha # NoCommit
           /\ req[r2].newCommitSha # NoCommit
           /\ req[r1].files = req[r2].files
           /\ Utf8Only(req[r1].files)
           /\ req[r1].headSha = req[r2].headSha)
          => /\ gh.commits[req[r1].newCommitSha].tree = gh.commits[req[r2].newCommitSha].tree
             /\ gh.commits[req[r1].newCommitSha].parents =
                    gh.commits[req[r2].newCommitSha].parents

\* A publish and a generate-commit request that read the same head have
\* created their commits from the same two UTF-8 files, and one of them has
\* become the head.
C9_Witness ==
    \E r1 \in Reqs, r2 \in Reqs :
        /\ req[r1].variant = "publish"
        /\ req[r2].variant = "generate-commit"
        /\ req[r1].newCommitSha # NoCommit
        /\ req[r2].newCommitSha # NoCommit
        /\ req[r1].headSha = req[r2].headSha
        /\ req[r1].files = req[r2].files
        /\ Len(req[r1].files) = 2
        /\ req[r1].status = 200
        /\ gh.commits[gh.head].tree # InitTree

(***************************************************************************)
(* Part 2. Actions of /api/auth-token                                      *)
(***************************************************************************)
\* Time passes.
TickSteps == {1, TOKEN_TTL_MS}

Tick ==
    /\ ticks < MaxTicks
    /\ \E d \in TickSteps : now' = now + d
    /\ ticks' = ticks + 1
    /\ UNCHANGED <<tokenStore, post, nextToken, issued, validCount, lastGet, commitVars, scraperVars, apiVars, siteVars, trackVars>>

\* POST without supabaseToken: cleanup, then 400.
PostMissing ==
    /\ tokenStore' = CleanupExpired(tokenStore, now)
    /\ UNCHANGED <<now, ticks, post, nextToken, issued, validCount, lastGet, commitVars, scraperVars, apiVars, siteVars, trackVars>>

\* POST with a supabaseToken: cleanup, then the handler awaits getUser.
PostBegin(p) ==
    /\ post[p].pc = "idle"
    /\ nextToken <= MaxTokens
    /\ \E s \in {SessionOf(p)} :
          post' = [post EXCEPT ![p] =
                      [pc |-> "getUser", supabaseToken |-> s, beganAt |-> now]]
    /\ tokenStore' = CleanupExpired(tokenStore, now)
    /\ UNCHANGED <<now, ticks, nextToken, issued, validCount, lastGet, commitVars, scraperVars, apiVars, siteVars, trackVars>>

\* getUser answers with an error or without user: 401, nothing is stored.
PostInvalid(p) ==
    /\ post[p].pc = "getUser"
    /\ post' = [post EXCEPT ![p] = IdlePost]
    /\ UNCHANGED <<tokenStore, now, ticks, nextToken, issued, validCount, lastGet, commitVars, scraperVars, apiVars, siteVars, trackVars>>

\* getUser found the user: a new token is stored and returned with 200.
PostCreate(p) ==
    /\ post[p].pc = "getUser"
    /\ nextToken <= MaxTokens
    /\ LET user == GetUser(post[p].supabaseToken) IN
       /\ tokenStore' = StoreSet(tokenStore, nextToken, user, post[p].supabaseToken, now)
       /\ issued' = [issued EXCEPT ![nextToken] =
                        [returned |-> TRUE, email |-> StoredEmail(user),
                         sessionToken |-> post[p].supabaseToken, createdAt |-> now]]
    /\ nextToken' = nextToken + 1
    /\ post' = [post EXCEPT ![p] = IdlePost]
    /\ UNCHANGED <<now, ticks, validCount, lastGet, commitVars, scraperVars, apiVars, siteVars, trackVars>>

\* if (!stored || stored.expiresAt < Date.now())
Invalid(stored, t) == ~stored.present \/ Expired(stored, t)

\* Mutant of AfterGet: the token is not consumed.
AfterGetKept(store, token) == store

\* The store after a GET of token: deleted in either branch.
AfterGet(store, token) == StoreDelete(store, token)

\* GET ?token=...: cleanup, then validate and consume. The token asked for is
\* one some POST has returned, or a value no POST returns.
Get(token) ==
    LET cleaned == CleanupExpired(tokenStore, now)
        stored == StoreGet(cleaned, token)
    IN
    /\ tokenStore' = AfterGet(cleaned, token)
    /\ IF Invalid(stored, now)
       THEN /\ lastGet' = [NoGet EXCEPT !.token = token, !.status = 200, !.at = now]
            /\ UNCHANGED validCount
       ELSE /\ lastGet' = [token |-> token, status |-> 200, valid |-> TRUE,
                           email |-> stored.email, sessionToken |-> stored.sessionToken,
                           at |-> now]
            /\ validCount' = [validCount EXCEPT ![token] = @ + 1]
    /\ UNCHANGED <<now, ticks, post, nextToken, issued, commitVars, scraperVars, apiVars, siteVars, trackVars>>

TokenNext ==
    \/ Tick
    \/ PostMissing
    \/ \E p \in PostSlots : PostBegin(p) \/ PostInvalid(p) \/ PostCreate(p)
    \/ \E token \in (1..(nextToken - 1)) \cup {UnknownToken} : Get(token)

TokenSpec == Init /\ [][TokenNext]_vars

(***************************************************************************)
(* Part 2. Properties of /api/auth-token                                   *)
(***************************************************************************)
\* Number of GETs of the token of lastGet answered valid before lastGet.
ValidBefore ==
    IF lastGet.token \in Tokens
    THEN validCount[lastGet.token] - (IF lastGet.valid THEN 1 ELSE 0)
    ELSE 0

\* C10: a GET answers valid exactly when its token was returned by an
\* earlier POST, no earlier GET of it was answered valid, and no more than
\* TOKEN_TTL_MS have passed since its creation; a valid answer carries the
\* email and session token stored by that POST; so no token is answered
\* valid twice.
C10_SingleUse ==
    /\ \A t \in Tokens : validCount[t] <= 1
    /\ lastGet.status = 200 =>
          LET t == lastGet.token
              returned == t \in Tokens /\ issued[t].returned
          IN
          /\ lastGet.valid <=>
                /\ returned
                /\ ValidBefore = 0
                /\ lastGet.at <= issued[t].createdAt + TOKEN_TTL_MS
          /\ lastGet.valid =>
                /\ lastGet.email = issued[t].email
                /\ lastGet.sessionToken = issued[t].sessionToken

\* A token was answered valid once, and a second GET of it within its TTL
\* was answered invalid.
C10_Witness ==
    /\ lastGet.token \in Tokens
    /\ issued[lastGet.token].returned
    /\ validCount[lastGet.token] = 1
    /\ ~lastGet.valid
    /\ lastGet.at <= issued[lastGet.token].createdAt + TOKEN_TTL_MS
    /\ now > 0

\* The entries of the map that were already expired at time t.
ExpiredAt(store, t) == { k \in DOMAIN store : store[k].present /\ Expired(store[k], t) }

\* A step that answers the POST of slot p (401 or 200).
PostAnswered(p) == post[p].pc = "getUser" /\ post'[p].pc = "idle"

\* A step that handles a whole request at once: a GET or a POST answered 400.
\* These are the steps of the endpoint that neither advance the clock nor
\* suspend or resume a POST.
HandledAtOnce == now' = now /\ post' = post

\* C11: every request to the token endpoint that creates or validates a
\* token removes the expired entries first: when a GET or a POST has been
\* handled, the map holds no entry that was already expired when that
\* request began.
C11_CleanupOnAccess ==
    [][ /\ HandledAtOnce => ExpiredAt(tokenStore', now) = {}
        /\ \A p \in PostSlots :
              PostAnswered(p) => ExpiredAt(tokenStore', post[p].beganAt) = {} ]_vars

\* A token was returned, nobody ever asked for it in a GET, its expiry has
\* passed, and it is gone from the map: a later request removed it on entry.
C11_Witness ==
    /\ lastGet = NoGet
    /\ \E k \in Tokens :
          /\ issued[k].returned
          /\ issued[k].createdAt + TOKEN_TTL_MS < now
          /\ ~tokenStore[k].present

(***************************************************************************)
(* Part 3. The pure functions of api/_scraper.ts                           *)
(*                                                                         *)
(* A string is the sequence of its pieces: a piece is a character ("/",    *)
(* "a", "b") or a group of characters that the functions treat as a whole  *)
(* (".html", "?q", "#f", the scheme and authority of an absolute URL).     *)
(* No piece is the beginning of another, so one string begins with another *)
(* exactly when its sequence of pieces does.                               *)
(***************************************************************************)
Last(s) == s[Len(s)]
Front(s) == SubSeq(s, 1, Len(s) - 1)
StartsWith(s, prefix) == Len(prefix) <= Len(s) /\ SubSeq(s, 1, Len(prefix)) = prefix
EndsWith(s, suffix) ==
    Len(suffix) <= Len(s) /\ SubSeq(s, Len(s) - Len(suffix) + 1, Len(s)) = suffix

\* The beginnings of absolute URLs: scheme and authority. The URL parser
\* lower-cases scheme and host and drops the default port; "http://[" has no
\* valid host and makes new URL() throw.
NoOrigin == "null"
AbsoluteHeads == {"http://x.com", "HTTP://X.COM:80", "http://other.com", "http://["}
OriginOf(head) ==
    CASE head = "http://x.com" -> "http://x.com"
      [] head = "HTTP://X.COM:80" -> "http://x.com"
      [] head = "http://other.com" -> "http://other.com"
      [] OTHER -> NoOrigin

\* parsedUrl.origin of the site being scraped: what the handlers pass as base.
BaseOrigin == "http://x.com"

PathPieces == {"/", "a", "b", ".html"}
PathStrings == UNION { [1..n -> PathPieces] : n \in 0..MaxPathLen }
\* The paths of the examples of the documentation.
ExamplePaths == { <<"/", "services", "/", "plumbing", ".html">> }
Queries == { <<>>, <<"?q">> }
Fragments == { <<>>, <<"#f">> }

\* The URL strings handed to normalizeUrl and urlToSlug: an absolute URL with
\* an empty path or a path that begins with "/", or a reference relative to
\* the base that does not begin with "//".
Urls ==
    { <<h>> \o path \o q \o f :
        h \in AbsoluteHeads,
        path \in { x \in PathStrings \cup ExamplePaths : x = <<>> \/ Head(x) = "/" },
        q \in Queries, f \in Fragments }
    \cup
    { path \o q \o f :
        path \in { x \in PathStrings : ~StartsWith(x, <<"/", "/">>) },
        q \in Queries, f \in Fragments }

\* Index of the first piece of s that lies in stops, Len(s) + 1 if none.
RECURSIVE FirstOf(_, _, _)
FirstOf(s, stops, i) ==
    IF i > Len(s) \/ s[i] \in stops THEN i ELSE FirstOf(s, stops, i + 1)

ParseFailure == [ok |-> FALSE, origin |-> NoOrigin, pathname |-> <<>>,
                 search |-> <<>>, hash |-> <<>>]

\* new URL(url, base): the parts of url resolved against base (an origin);
\* ParseFailure when the constructor throws.
ParseURL(url, base) ==
    LET absolute == url # <<>> /\ Head(url) \in AbsoluteHeads
        rest == IF absolute THEN Tail(url) ELSE url
        pathEnd == FirstOf(rest, {"?q", "#f"}, 1)
        searchEnd == FirstOf(rest, {"#f"}, 1)
        path == SubSeq(rest, 1, pathEnd - 1)
    IN
    IF absolute /\ OriginOf(Head(url)) = NoOrigin
    THEN ParseFailure
    ELSE [ok |-> TRUE,
          origin |-> IF absolute THEN OriginOf(Head(url)) ELSE OriginOf(base),
          pathname |-> IF path # <<>> /\ Head(path) = "/" THEN path ELSE <<"/">> \o path,
          search |-> SubSeq(rest, pathEnd, searchEnd - 1),
          hash |-> SubSeq(rest, searchEnd, Len(rest))]

\* parsed.href
Href(parsed) == <<parsed.origin>> \o parsed.pathname \o parsed.search \o parsed.hash

Absent == [absent |-> TRUE, href |-> <<>>]
Present(href) == [absent |-> FALSE, href |-> href]

\* Mutant of StripTrailingSlash: the slash stays.
StripTrailingSlashNever(href, pathname) == href

\* if (normalized.endsWith('/') && parsed.pathname !== '/') slice(0, -1)
StripTrailingSlash(href, pathname) ==
    IF Last(href) = "/" /\ pathname # <<"/">> THEN Front(href) ELSE href

\* normalizeUrl(url, baseOrigin)
NormalizeUrl(url, base) ==
    LET parsed == ParseURL(url, base) IN
    IF ~parsed.ok \/ ~ParseURL(<<base>>, base).ok
    THEN Absent
    ELSE IF parsed.origin # ParseURL(<<base>>, base).origin
    THEN Absent
    ELSE LET cleared == [parsed EXCEPT !.hash = <<>>, !.search = <<>>] IN
         Present(StripTrailingSlash(Href(cleared), cleared.pathname))

\* path.replace(/^\//, '')
RemoveLeadingSlash(path) == IF path # <<>> /\ Head(path) = "/" THEN Tail(path) ELSE path
\* path.replace(/\/$/, '')
RemoveTrailingSlash(path) == IF path # <<>> /\ Last(path) = "/" THEN Front(path) ELSE path
\* Mutant of RemoveHtml: the extension stays.
RemoveHtmlNever(path) == path
\* path.replace(/\.html$/, '')
RemoveHtml(path) == IF path # <<>> /\ Last(path) = ".html" THEN Front(path) ELSE path
\* path.replace(/\//g, '--')
ReplaceSlashes(path) == [i \in 1..Len(path) |-> IF path[i] = "/" THEN "--" ELSE path[i]]

\* urlToSlug(url, baseOrigin)
UrlToSlug(url, base) ==
    LET parsed == ParseURL(url, base) IN
    IF ~parsed.ok THEN <<"unknown">>
    ELSE IF parsed.pathname = <<"/">> \/ parsed.pathname = <<>> THEN <<"index">>
    ELSE ReplaceSlashes(RemoveHtml(RemoveTrailingSlash(RemoveLeadingSlash(parsed.pathname))))

\* toLowerCase() of a piece.
ToLowerCase(piece) ==
    CASE piece = "User-agent" -> "user-agent"
      [] piece = "Disallow" -> "disallow"
      [] piece = "DISALLOW" -> "disallow"
      [] piece = "Allow" -> "allow"
      [] piece = "BochiBotWeb/1.0" -> "bochibotweb/1.0"
      [] piece = "Googlebot" -> "googlebot"
      [] piece = "B" -> "b"
      [] OTHER -> piece

\* The name the crawler sends in its User-Agent header, before the comment.
OwnAgent == "BochiBotWeb/1.0"
\* The literal the parser compares the lower-cased agent with.
OwnAgentLiteral == "bochibotWeb/1.0"

\* A line of robots.txt "name: value"; the value is a sequence of pieces.
Line(name, value) == [name |-> name, value |-> value]
RobotsLines ==
    { Line("User-agent", <<"*">>), Line("User-agent", <<OwnAgent>>),
      Line("user-agent", <<"Googlebot">>),
      Line("Disallow", <<"/", "a">>), Line("DISALLOW", <<"/", "B">>),
      Line("Disallow", <<>>), Line("Allow", <<"/", "a">>) }
RobotsTxts == UNION { [1..n -> RobotsLines] : n \in 0..MaxLines }

\* relevantSection = agent === '*' || agent === 'bochibotWeb/1.0', where
\* agent is the lower-cased value of the User-agent line.
RelevantAgent(agent) == agent = <<"*">> \/ agent = <<OwnAgentLiteral>>

\* parseRobotsTxt: the loop over the lines from line i on.
RECURSIVE ParseRobotsFrom(_, _, _, _)
ParseRobotsFrom(lines, i, relevantSection, disallowed) ==
    IF i > Len(lines) THEN disallowed
    ELSE LET line == lines[i]
             name == ToLowerCase(line.name)
             agent == [k \in 1..Len(line.value) |-> ToLowerCase(line.value[k])]
         IN
         IF name = "user-agent"
         THEN ParseRobotsFrom(lines, i + 1, RelevantAgent(agent), disallowed)
         ELSE IF relevantSection /\ name = "disallow" /\ line.value # <<>>
         THEN ParseRobotsFrom(lines, i + 1, relevantSection, Append(disallowed, line.value))
         ELSE ParseRobotsFrom(lines, i + 1, relevantSection, disallowed)

\* parseRobotsTxt(robotsTxt)
ParseRobotsTxt(lines) == ParseRobotsFrom(lines, 1, FALSE, <<>>)

\* JSON values: kind, and for objects the @type, the non-empty ones of
\* streetAddress, addressLocality, addressRegion, postalCode in this order,
\* the value under "address" and the values of the other keys; for arrays
\* the items.
JUndefined == [kind |-> "undefined", type |-> "", parts |-> <<>>, items |-> <<>>]
JNull == [JUndefined EXCEPT !.kind = "null"]
JString == [JUndefined EXCEPT !.kind = "string"]
JPostalAddress(parts) ==
    [kind |-> "object", type |-> "PostalAddress", parts |-> parts, items |-> <<>>]
JObject(type, address, others) ==
    [kind |-> "object", type |-> type, parts |-> <<>>, address |-> address, items |-> others]
JArray(items) == [kind |-> "array", type |-> "", parts |-> <<>>, items |-> items]

\* The text of a JSON-LD script element, and JSON.parse of it.
BlockTexts ==
    { "", "{oops", "null", "{\"@type\":\"PostalAddress\",\"streetAddress\":\"1 Main St\"}",
      "{\"@type\":\"LocalBusiness\",\"address\":{\"@type\":\"PostalAddress\"}}",
      "[\"x\",{\"@type\":\"PostalAddress\",\"postalCode\":\"90210\"}]",
      "{\"address\":\"1 Main St\",\"location\":{\"@type\":\"PostalAddress\",\"streetAddress\":\"2 Oak Ave\"}}" }
ParseError == [ok |-> FALSE, value |-> JUndefined]
Parsed(value) == [ok |-> TRUE, value |-> value]
JsonParse(text) ==
    CASE text = "null" -> Parsed(JNull)
      [] text = "{\"@type\":\"PostalAddress\",\"streetAddress\":\"1 Main St\"}" ->
            Parsed(JPostalAddress(<<"1 Main St">>))
      [] text = "{\"@type\":\"LocalBusiness\",\"address\":{\"@type\":\"PostalAddress\"}}" ->
            Parsed(JObject("LocalBusiness", JPostalAddress(<<>>), <<>>))
      [] text = "[\"x\",{\"@type\":\"PostalAddress\",\"postalCode\":\"90210\"}]" ->
            Parsed(JArray(<<JString, JPostalAddress(<<"90210">>)>>))
      [] text = "{\"address\":\"1 Main St\",\"location\":{\"@type\":\"PostalAddress\",\"streetAddress\":\"2 Oak Ave\"}}" ->
            Parsed(JObject("", JString, <<JPostalAddress(<<"2 Oak Ave">>)>>))
      [] OTHER -> ParseError
Blocks == UNION { [1..n -> BlockTexts] : n \in 0..MaxBlocks }

\* Mutant of SkipBlock: a block that does not parse aborts the extraction.
AbortOnBlock(state) == [state EXCEPT !.threw = TRUE]

\* catch { /* skip invalid JSON-LD */ }
SkipBlock(state) == state

\* The .each loop over the JSON-LD script elements from block i on.
RECURSIVE SchemaFrom(_, _, _)
SchemaFrom(blocks, i, state) ==
    IF i > Len(blocks) \/ state.threw THEN state
    ELSE LET parsed == JsonParse(blocks[i]) IN
         SchemaFrom(blocks, i + 1,
                    IF parsed.ok
                    THEN [state EXCEPT !.schema = Append(@, parsed.value)]
                    ELSE SkipBlock(state))

\* The value under the key "address" of an object, undefined if it has none.
AddressOf(obj) == IF "address" \in DOMAIN obj THEN obj.address ELSE JUndefined
\* typeof val === 'object' (true of null as well)
TypeofObject(val) == val.kind \in {"object", "array", "null"}
\* No address found: findPostalAddress returns null.
NoAddress == <<>>

\* findPostalAddress(obj): the parts of the address found, joined by the
\* caller's reader; NoAddress for null.
RECURSIVE FindPostalAddress(_)
RECURSIVE FirstFound(_, _)
FirstFound(vals, i) ==
    IF i > Len(vals) THEN NoAddress
    ELSE LET found == IF TypeofObject(vals[i]) THEN FindPostalAddress(vals[i]) ELSE NoAddress
         IN IF found # NoAddress THEN found ELSE FirstFound(vals, i + 1)
FindPostalAddress(obj) ==
    IF obj.kind \notin {"object", "array"} THEN NoAddress
    ELSE IF obj.type = "PostalAddress" THEN obj.parts
    ELSE IF AddressOf(obj).kind \notin {"undefined", "null"}
    THEN FindPostalAddress(AddressOf(obj))
    ELSE FirstFound(obj.items, 1)

\* The text of the first <address> element, empty if the page has none.
AddressTags == { <<>>, <<"5 Elm St">> }

\* extractPageData, as far as structured data and the address go.
ExtractPageData(blocks, addressTag) ==
    LET state == SchemaFrom(blocks, 1, [threw |-> FALSE, schema |-> <<>>])
        fromSchema == FirstFound(state.schema, 1)
    IN
    IF state.threw
    THEN [threw |-> TRUE, schema |-> <<>>, physical_address |-> NoAddress]
    ELSE [threw |-> FALSE, schema |-> state.schema,
          physical_address |-> IF fromSchema # NoAddress THEN fromSchema ELSE addressTag]

(***************************************************************************)
(* Part 3. Specification: one function of _scraper applied to one input    *)
(***************************************************************************)
UrlCalls ==
    [fn : {"normalizeUrl", "urlToSlug"}, url : Urls, base : {BaseOrigin}]

Returned3(value) == [called |-> TRUE, value |-> value]

NormalizeUrlCall ==
    /\ call.fn = "normalizeUrl"
    /\ ~ret.called
    /\ ret' = Returned3(NormalizeUrl(call.url, call.base))
    /\ UNCHANGED <<call, commitVars, tokenVars, apiVars, siteVars, trackVars>>

UrlToSlugCall ==
    /\ call.fn = "urlToSlug"
    /\ ~ret.called
    /\ ret' = Returned3(UrlToSlug(call.url, call.base))
    /\ UNCHANGED <<call, commitVars, tokenVars, apiVars, siteVars, trackVars>>

RobotsCalls == [fn : {"parseRobotsTxt"}, robotsTxt : RobotsTxts]

ParseRobotsTxtCall ==
    /\ call.fn = "parseRobotsTxt"
    /\ ~ret.called
    /\ ret' = Returned3(ParseRobotsTxt(call.robotsTxt))
    /\ UNCHANGED <<call, commitVars, tokenVars, apiVars, siteVars, trackVars>>

ExtractCalls == [fn : {"extractPageData"}, blocks : Blocks, addressTag : AddressTags]

ExtractPageDataCall ==
    /\ call.fn = "extractPageData"
    /\ ~ret.called
    /\ ret' = Returned3(ExtractPageData(call.blocks, call.addressTag))
    /\ UNCHANGED <<call, commitVars, tokenVars, apiVars, siteVars, trackVars>>

(***************************************************************************)
(* Part 3. Properties of normalizeUrl and urlToSlug                        *)
(***************************************************************************)
\* The URL string without its query string and fragment.
WithoutQueryAndFragment(url) == SubSeq(url, 1, FirstOf(url, {"?q", "#f"}, 1) - 1)

\* The URL strings that differ from url only in query string or fragment.
QueryFragmentVariants(url) ==
    { WithoutQueryAndFragment(url) \o q \o f : q \in Queries, f \in Fragments }

\* The path without one trailing slash, the bare root excepted.
PathWithoutTrailingSlash(pathname) ==
    IF pathname # <<"/">> /\ Last(pathname) = "/" THEN Front(pathname) ELSE pathname

NormalizeUrlReturned == call.fn = "normalizeUrl" /\ ret.called

\* What normalizeUrl returns when it returns a URL, and that URLs differing
\* only in query string or fragment give the same result.
NormalizedAsStated ==
    LET parsed == ParseURL(call.url, call.base) IN
    /\ ~ret.value.absent =>
          ret.value.href = <<parsed.origin>> \o PathWithoutTrailingSlash(parsed.pathname)
    /\ \A other \in QueryFragmentVariants(call.url) :
          other \in Urls /\ NormalizeUrl(other, call.base) = ret.value
    /\ call.url = <<"http://x.com", "/", "a", "/">> =>
          ret.value = Present(<<"http://x.com", "/", "a">>)
    /\ call.url = <<"http://other.com">> => ret.value.absent

\* C16 as stated: normalizeUrl returns absent exactly when the URL resolved
\* against base has another origin than base; otherwise the resolved URL
\* without fragment, query string and one trailing slash (bare root kept).
C16_AbsentIffOtherOrigin ==
    NormalizeUrlReturned =>
        LET parsed == ParseURL(call.url, call.base) IN
        /\ ret.value.absent <=> (parsed.ok /\ parsed.origin # call.base)
        /\ NormalizedAsStated

\* C16 amended: normalizeUrl returns absent exactly when the URL cannot be
\* resolved against base or the resolved URL has another origin than base;
\* otherwise the resolved URL without fragment, query string and one
\* trailing slash (bare root kept), the same for URLs that differ only in
\* query string or fragment.
C16_NormalizeUrl ==
    NormalizeUrlReturned =>
        LET parsed == ParseURL(call.url, call.base) IN
        /\ ret.value.absent <=> (~parsed.ok \/ parsed.origin # call.base)
        /\ NormalizedAsStated

\* A same-origin URL written with upper-case host, default port, trailing
\* slash, query string and fragment was normalized.
C16_Witness ==
    /\ NormalizeUrlReturned
    /\ call.url = <<"HTTP://X.COM:80", "/", "a", "/", "?q", "#f">>
    /\ ret.value = Present(<<"http://x.com", "/", "a">>)

UrlToSlugReturned == call.fn = "urlToSlug" /\ ret.called /\ ParseURL(call.url, call.base).ok

\* t is the path without its leading slash, without its trailing slash if it
\* has one, and then without its final ".html" if it has one.
SlugSource(t, pathname) ==
    \E slash \in {<<>>, <<"/">>}, html \in {<<>>, <<".html">>} :
        /\ pathname = <<"/">> \o t \o html \o slash
        /\ slash = <<>> => ~EndsWith(t \o html, <<"/">>)
        /\ html = <<>> => ~EndsWith(t, <<".html">>)

\* C17: urlToSlug maps the root path to "index" and every other path to the
\* path without leading and trailing slash and without a final ".html",
\* every remaining "/" replaced by "--".
C17_UrlToSlug ==
    UrlToSlugReturned =>
        LET pathname == ParseURL(call.url, call.base).pathname
            slug == ret.value
        IN
        /\ pathname = <<"/">> => slug = <<"index">>
        /\ pathname # <<"/">> =>
              \E t \in { SubSeq(pathname, 2, k) : k \in 1..Len(pathname) } :
                  /\ SlugSource(t, pathname)
                  /\ Len(slug) = Len(t)
                  /\ \A i \in 1..Len(t) : slug[i] = IF t[i] = "/" THEN "--" ELSE t[i]
        /\ call.url = <<"http://x.com", "/", "services", "/", "plumbing", ".html">> =>
              slug = <<"services", "--", "plumbing">>
        /\ call.url = <<"http://x.com", "/">> => slug = <<"index">>

\* The slug of a relative reference with a directory and a final ".html".
C17_Witness ==
    /\ UrlToSlugReturned
    /\ call.url = <<"a", "/", "b", ".html">>
    /\ ret.value = <<"a", "--", "b">>

\* The agents whose sections the crawler is said to obey.
ObeyedAgents == { <<"*">>, <<OwnAgent>> }

\* The non-empty Disallow values of the lines from i on whose active
\* User-agent line names one of agents, in file order.
RECURSIVE DisallowsUnder(_, _, _, _)
DisallowsUnder(lines, i, agents, active) ==
    IF i > Len(lines) THEN <<>>
    ELSE IF lines[i].name \in {"User-agent", "user-agent"}
    THEN DisallowsUnder(lines, i + 1, agents, lines[i].value \in agents)
    ELSE IF active /\ lines[i].name \in {"Disallow", "DISALLOW"} /\ lines[i].value # <<>>
    THEN <<lines[i].value>> \o DisallowsUnder(lines, i + 1, agents, active)
    ELSE DisallowsUnder(lines, i + 1, agents, active)

\* C18: parseRobotsTxt returns, in file order, exactly the non-empty
\* Disallow paths of the lines whose active User-agent line names "*" or the
\* crawler's own agent BochiBotWeb/1.0, and none under another agent.
C18_RobotsRelevantSections ==
    (call.fn = "parseRobotsTxt" /\ ret.called) =>
        ret.value = DisallowsUnder(call.robotsTxt, 1, ObeyedAgents, FALSE)

\* The texts of BlockTexts that are well-formed JSON.
WellFormed == { "null", "{\"@type\":\"PostalAddress\",\"streetAddress\":\"1 Main St\"}",
                "{\"@type\":\"LocalBusiness\",\"address\":{\"@type\":\"PostalAddress\"}}",
                "[\"x\",{\"@type\":\"PostalAddress\",\"postalCode\":\"90210\"}]",
                "{\"address\":\"1 Main St\",\"location\":{\"@type\":\"PostalAddress\",\"streetAddress\":\"2 Oak Ave\"}}" }
IsWellFormed(text) == text \in WellFormed

ExtractReturned == call.fn = "extractPageData" /\ ret.called

\* C20: for a page with any sequence of JSON-LD blocks, any of them
\* malformed, extractPageData completes and its structured-data list holds
\* exactly the values of the well-formed blocks, in document order.
C20_MalformedBlocksSkipped ==
    ExtractReturned =>
        LET good == SelectSeq(call.blocks, IsWellFormed) IN
        /\ ~ret.value.threw
        /\ Len(ret.value.schema) = Len(good)
        /\ \A i \in 1..Len(good) : ret.value.schema[i] = JsonParse(good[i]).value

\* A page with a malformed block between two well-formed ones was extracted.
C20_Witness ==
    /\ ExtractReturned
    /\ call.blocks = <<"null", "{oops",
                       "{\"@type\":\"PostalAddress\",\"streetAddress\":\"1 Main St\"}">>
    /\ ret.value.schema = <<JNull, JPostalAddress(<<"1 Main St">>)>>

\* The nodes of a JSON value in depth-first order: the value, then the nodes
\* under its "address" key, then the nodes of its other values or items.
RECURSIVE NodesOf(_)
RECURSIVE NodesOfAll(_, _)
NodesOfAll(vals, i) ==
    IF i > Len(vals) THEN <<>> ELSE NodesOf(vals[i]) \o NodesOfAll(vals, i + 1)
NodesOf(value) ==
    <<value>> \o (IF "address" \in DOMAIN value THEN NodesOf(value.address) ELSE <<>>)
              \o NodesOfAll(value.items, 1)

\* A PostalAddress node with at least one of street, locality, region or
\* postal code.
HasAddressParts(node) ==
    node.kind = "object" /\ node.type = "PostalAddress" /\ node.parts # <<>>

\* C21: whenever a PostalAddress node with at least one part exists anywhere
\* in the page's structured-data blocks, physical_address is the address of
\* the first such node in depth-first order over the blocks in document
\* order; only when there is none is it the text of the first <address>
\* element, and otherwise it is absent.
C21_AddressPrefersStructuredData ==
    ExtractReturned =>
        LET nodes == SelectSeq(NodesOfAll(ret.value.schema, 1), HasAddressParts) IN
        ret.value.physical_address =
            IF nodes # <<>> THEN nodes[1].parts ELSE call.addressTag

\* C26: normalizeUrl is idempotent: whenever normalizeUrl(u, b) is present,
\* normalizeUrl(normalizeUrl(u, b), b) equals normalizeUrl(u, b).
C26_NormalizeUrlIdempotent ==
    (NormalizeUrlReturned /\ ~ret.value.absent) =>
        NormalizeUrl(ret.value.href, call.base) = ret.value

\* snapshotPath = `${client_slug}/${urlToSlug(finalUrl, origin)}.html`
SnapshotPath(clientSlug, slug) == <<clientSlug, "/">> \o slug \o <<".html">>

\* The URLs of the site that are their own normal form.
NormalizedUrls == { u \in Urls : NormalizeUrl(u, BaseOrigin) = Present(u) }

\* C27: for one client, two distinct normalized same-origin page URLs never
\* yield the same snapshot storage path (client slug plus urlToSlug of the
\* page URL).
C27_SnapshotPathsDistinct ==
    (call.fn = "urlToSlug" /\ ret.called /\ call.url \in NormalizedUrls) =>
        \A other \in NormalizedUrls \ {call.url} :
            SnapshotPath(Slugify(ClientName), UrlToSlug(other, call.base))
                # SnapshotPath(Slugify(ClientName), ret.value)

ScraperNext ==
    \/ NormalizeUrlCall
    \/ UrlToSlugCall
    \/ ParseRobotsTxtCall
    \/ ExtractPageDataCall

ScraperInit ==
    /\ InitCommitVars
    /\ InitTokenVars
    /\ call \in UrlCalls \cup RobotsCalls \cup ExtractCalls
    /\ InitApiVars
    /\ InitSiteVars
    /\ InitTrackVars
    /\ ret = NotCalled

ScraperSpec == ScraperInit /\ [][ScraperNext]_vars

(***************************************************************************)
(* Part 4. The request handlers, one request from entry to response.       *)
(* The services a handler calls answer as they please; the repository and  *)
(* the records behind them are not part of this part.                      *)
(***************************************************************************)
\* /api/edit exists in two versions: api/edit (part_001) and the one that
\* follows validateAuth in api/_auth.ts.
EditInAuth == "edit (api/_auth.ts)"
Handlers ==
    { "edit", EditInAuth, "publish", "generate-config", "generate-page", "generate-commit",
      "scrape-discover", "scrape-page", "create-site", "client-intake" }
Methods == { "POST", "GET", "OPTIONS" }

\* The Authorization header of the request: none, not a bearer token, a
\* bearer token the identity provider rejects, one that has expired, and
\* the token of a live session.
AuthHeaders == { "", "Basic abc", "Bearer bad", "Bearer expired", "Bearer good" }
\* authHeader.startsWith('Bearer ')
StartsWithBearer(header) == header \in { "Bearer bad", "Bearer expired", "Bearer good" }
\* The sessions for which supabase.auth.getUser can return a user.
LiveSession(header) == header = "Bearer good"

\* What a handler calls: the identity provider, the record store, GitHub,
\* the language model, Vercel, object storage, and the site being scraped.
Services == { "identity", "records", "github", "llm", "vercel", "storage", "site" }
Guarded == { "github", "llm", "vercel", "storage", "records" }

\* The handlers that answer OPTIONS before looking at the method.
HandlesOptions(handler) == handler \notin { "edit", EditInAuth, "publish" }
\* The handlers that call validateAuth after the method check.
CallsValidateAuth(handler) == handler # EditInAuth

\* The calls a handler awaits one after the other once the body is accepted,
\* each of which ends the request when it fails. publish: ref, commit, tree,
\* commit, ref update. generate-commit: client, ref, commit, blob, tree,
\* commit, ref update. create-site: client, repository, project, environment,
\* deploy, client update.
Program(handler) ==
    CASE handler \in { "edit", EditInAuth } -> <<"github", "llm">>
      [] handler = "publish" -> <<"github", "github", "github", "github", "github">>
      [] handler = "generate-config" -> <<"records">>
      [] handler = "generate-page" -> <<"records", "github">>
      [] handler = "generate-commit" ->
            <<"records", "github", "github", "github", "github", "github", "github">>
      [] handler = "scrape-discover" -> <<"records">>
      [] handler = "scrape-page" -> <<>>
      [] handler = "create-site" ->
            <<"records", "github", "vercel", "vercel", "vercel", "records">>
      [] handler = "client-intake" -> <<"llm">>

\* The status of the response when call number step of the program fails.
FailureStatus(handler, step) ==
    IF Program(handler)[step] = "records" /\ step = 1 THEN 404 ELSE 500

Respond(a, status, success) ==
    [a EXCEPT !.pc = "done", !.status = status, !.success = success]
Called(a, service) == [a EXCEPT !.calls = Append(@, service)]

\* The commit a publish request creates.
NewCommit == "c1"

\* What follows the program of a handler.
AfterProgram(a) ==
    CASE a.handler = "publish" ->
            [a EXCEPT !.refUpdated = TRUE, !.newCommitSha = NewCommit, !.pc = "tracking"]
      [] a.handler = "generate-page" -> [Called(a, "llm") EXCEPT !.pc = "callClaude"]
      [] a.handler = "generate-config" -> [a EXCEPT !.pc = "coordinates"]
      [] a.handler = "scrape-discover" -> [Called(a, "site") EXCEPT !.pc = "robots"]
      [] a.handler = "scrape-page" -> [Called(a, "site") EXCEPT !.pc = "fetchPage"]
      [] OTHER -> Respond(a, 200, TRUE)

\* OPTIONS and the method check.
Enter ==
    /\ api.pc = "start"
    /\ api' = IF HandlesOptions(api.handler) /\ api.method = "OPTIONS"
              THEN Respond(api, 200, FALSE)
              ELSE IF api.method # "POST"
              THEN Respond(api, 405, FALSE)
              ELSE [api EXCEPT !.pc = IF CallsValidateAuth(api.handler)
                                      THEN "validateAuth" ELSE "body"]
    /\ UNCHANGED <<commitVars, tokenVars, scraperVars, siteVars, trackVars>>

\* validateAuth: 401 without a bearer token, else the identity provider is
\* asked for the user of the token.
ValidateAuth ==
    /\ api.pc = "validateAuth"
    /\ api' = IF ~StartsWithBearer(api.auth)
              THEN Respond(api, 401, FALSE)
              ELSE [Called(api, "identity") EXCEPT !.pc = "getUser"]
    /\ UNCHANGED <<commitVars, tokenVars, scraperVars, siteVars, trackVars>>

\* getUser answers: an error or no user gives 401; a user only for the
\* token of a live session.
GetUserReturned ==
    /\ api.pc = "getUser"
    /\ \E found \in { f \in BOOLEAN : f => LiveSession(api.auth) } :
          api' = IF found THEN [api EXCEPT !.pc = "body"] ELSE Respond(api, 401, FALSE)
    /\ UNCHANGED <<commitVars, tokenVars, scraperVars, siteVars, trackVars>>

\* The body is checked (400 when a required field is missing); then the
\* first call of the program is issued.
Body ==
    /\ api.pc = "body"
    /\ \E valid \in BOOLEAN :
          api' = IF ~valid THEN Respond(api, 400, FALSE)
                 ELSE IF Program(api.handler) = <<>> THEN AfterProgram(api)
                 ELSE [Called(api, Program(api.handler)[1]) EXCEPT !.pc = "await", !.step = 1]
    /\ UNCHANGED <<commitVars, tokenVars, scraperVars, siteVars, trackVars>>

\* A call of the program answers: a failure ends the request, success
\* issues the next call.
ProgramReturned ==
    /\ api.pc = "await"
    /\ \E ok \in BOOLEAN :
          api' = IF ~ok THEN Respond(api, FailureStatus(api.handler, api.step), FALSE)
                 ELSE IF api.step = Len(Program(api.handler)) THEN AfterProgram(api)
                 ELSE [Called(api, Program(api.handler)[api.step + 1])
                          EXCEPT !.step = api.step + 1]
    /\ UNCHANGED <<commitVars, tokenVars, scraperVars, siteVars, trackVars>>

(***************************************************************************)
(* Part 4. scrape-page and scrape-discover                                 *)
(***************************************************************************)
FETCH_TIMEOUT == 8000
MAX_PAGES == 49

\* The URL of the homepage (parsed.href of the client's website URL), and
\* the page a redirect of it may lead to.
StartUrl == <<BaseOrigin, "/">>
RedirectTarget == <<BaseOrigin, "/", "a">>

\* What the site answers to the page fetch: after how long, with which
\* status and which content type, and from which URL once redirects have
\* been followed (response.url).
FetchResponses ==
    [elapsed : {1, FETCH_TIMEOUT}, status : {200, 404},
     contentType : {"text/html; charset=utf-8", "application/pdf"},
     url : {StartUrl, RedirectTarget}]
\* contentType.includes('text/html')
IncludesTextHtml(contentType) == contentType = "text/html; charset=utf-8"

\* fetchPage: "page" when it returns the page, else why it returns null.
FetchPage(response) ==
    IF response.elapsed >= FETCH_TIMEOUT THEN "timeout"
    ELSE IF ~IncludesTextHtml(response.contentType) THEN "non-html"
    ELSE IF ~Ok(response.status) THEN "non-2xx"
    ELSE "page"

\* The response of a scrape handler whose page fetch returned null.
PageNotFetched(a) ==
    IF a.handler = "scrape-page"
    THEN [Respond(a, 200, TRUE) EXCEPT !.skipped = TRUE]
    ELSE Respond(a, 502, FALSE)

\* The href attributes of the links of the homepage, in document order.
LinkHrefs ==
    { <<"/", "a">>, <<"/", "a", "/", "b">>, <<"/", "a", "/">>, <<"/", "b", "?q">>,
      <<"http://x.com", "/", "a", "b">>, <<"http://other.com", "/", "b">>,
      <<"/">>, <<"#f">> }
HrefLists == UNION { [1..n -> LinkHrefs] : n \in 0..MaxLinks }
\* The <loc> entries of the sitemap.
SitemapLocs == { <<"http://x.com", "/", "b">>, <<"http://x.com", "/", "a", "/", "a">> }
LocLists == UNION { [1..n -> SitemapLocs] : n \in 0..MaxLinks }
\* The robots.txt files the site may serve.
RobotsFiles ==
    { <<>>,
      <<Line("User-agent", <<"*">>), Line("Disallow", <<"/", "a">>)>>,
      <<Line("User-agent", <<"*">>), Line("Disallow", <<"/", "a", "/">>)>>,
      <<Line("User-agent", <<"Googlebot">>), Line("Disallow", <<"/">>)>>,
      <<Line("User-agent", <<"*">>), Line("Disallow", <<"/", "b">>),
        Line("Disallow", <<"/", "a", "/", "b">>)>> }

\* s without the members that occur earlier in it: the order of a Set.
RECURSIVE Distinct(_)
Distinct(s) ==
    IF s = <<>> THEN <<>>
    ELSE LET front == Distinct(Front(s)) IN
         IF \E i \in 1..Len(front) : front[i] = Last(s) THEN front ELSE Append(front, Last(s))

\* The present results of normalizeUrl over urls, in order.
RECURSIVE Normalized(_, _)
Normalized(urls, base) ==
    IF urls = <<>> THEN <<>>
    ELSE LET n == NormalizeUrl(Head(urls), base) IN
         (IF n.absent THEN <<>> ELSE <<n.href>>) \o Normalized(Tail(urls), base)

\* The hrefs extractInternalLinks does not look at: none, or a fragment.
SkippedHref(href) == href = <<>> \/ Head(href) = "#f"
\* extractInternalLinks(html, url, baseOrigin)
ExtractInternalLinks(hrefs, base) ==
    Distinct(Normalized(SelectSeq(hrefs, LAMBDA h : ~SkippedHref(h)), base))
\* parseSitemapXml(xml, baseOrigin)
ParseSitemapXml(locs, base) ==
    Normalized(SelectSeq(locs, LAMBDA l : l # <<>>), base)

\* Mutant of IsBlockedByRobots: a rule blocks only the path equal to it.
IsBlockedByRobotsExact(urlPath, disallowed) ==
    \E i \in 1..Len(disallowed) : urlPath = disallowed[i]

\* isBlockedByRobots(urlPath, disallowed)
IsBlockedByRobots(urlPath, disallowed) ==
    \E i \in 1..Len(disallowed) : StartsWith(urlPath, disallowed[i])

\* The links the discovery loop looks up in the rules: normalized, present
\* and not the homepage.
Candidates(links, base) ==
    SelectSeq(Normalized(links, base),
              LAMBDA n : n # NormalizeUrl(StartUrl, base).href)
\* new URL(normalized).pathname
PathnameOf(normalized) == ParseURL(normalized, BaseOrigin).pathname
\* [...allDiscovered]
AllDiscovered(links, base, disallowed) ==
    Distinct(SelectSeq(Candidates(links, base),
                       LAMBDA n : ~IsBlockedByRobots(PathnameOf(n), disallowed)))
\* .slice(0, 49)
Slice(s, n) == SubSeq(s, 1, IF Len(s) < n THEN Len(s) ELSE n)

\* robots.txt answers (or not): the rules of a 2xx answer are parsed; then
\* the sitemap is asked for.
RobotsReturned ==
    /\ api.pc = "robots"
    /\ \E ok \in BOOLEAN, file \in RobotsFiles :
          api' = [Called(api, "site") EXCEPT
                     !.pc = "sitemap",
                     !.disallowed = IF ok THEN ParseRobotsTxt(file) ELSE <<>>]
    /\ UNCHANGED <<commitVars, tokenVars, scraperVars, siteVars, trackVars>>

\* sitemap.xml answers (or not); then the homepage is fetched.
SitemapReturned ==
    /\ api.pc = "sitemap"
    /\ \E ok \in BOOLEAN, locs \in LocLists :
          api' = [Called(api, "site") EXCEPT
                     !.pc = "fetchPage",
                     !.sitemap_urls = IF ok THEN ParseSitemapXml(locs, BaseOrigin) ELSE <<>>]
    /\ UNCHANGED <<commitVars, tokenVars, scraperVars, siteVars, trackVars>>

\* fetchPage returns: null ends the request; a page is extracted and its
\* snapshot uploaded.
FetchPageReturned ==
    /\ api.pc = "fetchPage"
    /\ \E response \in FetchResponses :
          LET fetched == [api EXCEPT !.fetched = FetchPage(response)] IN
          api' = IF FetchPage(response) # "page"
                 THEN PageNotFetched(fetched)
                 ELSE [Called(fetched, "storage") EXCEPT !.pc = "upload",
                                                         !.finalUrl = response.url]
    /\ UNCHANGED <<commitVars, tokenVars, scraperVars, siteVars, trackVars>>

UploadOutcomes == { "stored", "error", "threw" }

\* catch (err) { console.error('Snapshot upload failed (non-fatal)') }
UploadFailed(a) == a

\* The response of a discovery request whose homepage has the links hrefs.
Discovered(a, hrefs) ==
    LET links == ExtractInternalLinks(hrefs, BaseOrigin) \o a.sitemap_urls
        candidates == Candidates(links, BaseOrigin)
    IN
    [Respond(a, 200, TRUE) EXCEPT
        !.checks = { [path |-> PathnameOf(candidates[i]),
                      blocked |-> IsBlockedByRobots(PathnameOf(candidates[i]), a.disallowed)] :
                     i \in 1..Len(candidates) },
        !.pages_to_scrape = Slice(AllDiscovered(links, BaseOrigin, a.disallowed), MAX_PAGES)]

\* The upload of the snapshot ends one way or the other; scrape-page answers
\* with the page, scrape-discover goes on to the links of the homepage.
UploadReturned ==
    /\ api.pc = "upload"
    /\ \E outcome \in UploadOutcomes,
          hrefs \in IF api.handler = "scrape-page" THEN {<<>>} ELSE HrefLists :
          LET uploaded == [api EXCEPT !.upload = outcome]
              after == IF outcome = "threw" THEN UploadFailed(uploaded) ELSE uploaded
          IN
          api' = IF api.handler = "scrape-page" THEN Respond(after, 200, TRUE)
                 ELSE Discovered(after, hrefs)
    /\ UNCHANGED <<commitVars, tokenVars, scraperVars, siteVars, trackVars>>

(***************************************************************************)
(* Part 4. Edit tracking of publish                                        *)
(***************************************************************************)
\* return res.status(200).json({ success: true, commitSha: newCommit.sha })
Published(a) == [Respond(a, 200, TRUE) EXCEPT !.commitSha = a.newCommitSha]

\* Mutant of TrackingFailed: a failed tracking fails the request.
TrackingFailedSurfaced(a) == Respond(a, 500, FALSE)

\* catch (trackingError) { console.error('Edit tracking error (non-fatal)') }
TrackingFailed(a) == Published(a)

Tracked(a, outcome) == [a EXCEPT !.tracking = Append(@, outcome)]

\* if (supabaseUrl && supabaseKey && githubRepo): the client is looked up.
TrackBegin ==
    /\ api.pc = "tracking"
    /\ \E configured \in BOOLEAN :
          api' = IF configured THEN [Called(api, "records") EXCEPT !.pc = "trackLookup"]
                 ELSE Published(Tracked(api, "not configured"))
    /\ UNCHANGED <<commitVars, tokenVars, scraperVars, siteVars, trackVars>>

\* The lookup answers: with a client the counter is updated.
TrackLookupReturned ==
    /\ api.pc = "trackLookup"
    /\ \E outcome \in { "client", "no client", "threw" } :
          LET a == Tracked(api, outcome) IN
          api' = CASE outcome = "client" -> [Called(a, "records") EXCEPT !.pc = "trackUpdate"]
                   [] outcome = "no client" -> Published(a)
                   [] outcome = "threw" -> TrackingFailed(a)
    /\ UNCHANGED <<commitVars, tokenVars, scraperVars, siteVars, trackVars>>

\* The update answers: unless it threw, the history rows are inserted.
TrackUpdateReturned ==
    /\ api.pc = "trackUpdate"
    /\ \E outcome \in { "updated", "error", "threw" } :
          LET a == Tracked(api, outcome) IN
          api' = IF outcome = "threw" THEN TrackingFailed(a)
                 ELSE [Called(a, "records") EXCEPT !.pc = "trackInsert"]
    /\ UNCHANGED <<commitVars, tokenVars, scraperVars, siteVars, trackVars>>

\* The insert answers.
TrackInsertReturned ==
    /\ api.pc = "trackInsert"
    /\ \E outcome \in { "inserted", "error", "threw" } :
          LET a == Tracked(api, outcome) IN
          api' = IF outcome = "threw" THEN TrackingFailed(a) ELSE Published(a)
    /\ UNCHANGED <<commitVars, tokenVars, scraperVars, siteVars, trackVars>>

(***************************************************************************)
(* Part 4. The language-model call of generate-page                        *)
(***************************************************************************)
MIN_GENERATED_LENGTH == 50
\* The characters of an opening and a closing fence.
FenceLength == 8

\* The text of an answer of the model: the page, possibly inside a fence,
\* possibly with white space around it.
Texts == [fenced : BOOLEAN, body : {0, MIN_GENERATED_LENGTH - 1, MIN_GENERATED_LENGTH},
          spaces : {0, 1}]
Length(text) == text.body + text.spaces + (IF text.fenced THEN FenceLength ELSE 0)
\* The answers of the model: a status and, with 2xx, a text.
LlmAnswers == [ok : BOOLEAN, text : Texts]

\* callClaude throws on a non-2xx answer and on an empty text.
CallClaudeThrows(answer) == ~answer.ok \/ Length(answer.text) = 0
\* stripFences(content): trimmed and without the fence
StripFences(text) == [text EXCEPT !.fenced = FALSE, !.spaces = 0]

\* Mutant of RetryCallClaude: every short result is tried again.
RetryCallClaudeAgain(n, generated) == Length(generated) < MIN_GENERATED_LENGTH

\* if (generated.length < 50), after the first call only
RetryCallClaude(n, generated) == n = 1 /\ Length(generated) < MIN_GENERATED_LENGTH

\* The model answers the call of generate-page.
CallClaudeReturned ==
    /\ api.pc = "callClaude"
    /\ \E answer \in LlmAnswers :
          LET a == [api EXCEPT !.llm = Append(@, answer)]
              generated == StripFences(answer.text)
          IN
          api' = IF CallClaudeThrows(answer) THEN Respond(a, 500, FALSE)
                 ELSE IF RetryCallClaude(Len(a.llm), generated) THEN Called(a, "llm")
                 ELSE [Respond(a, 200, TRUE) EXCEPT !.generated = <<generated>>]
    /\ UNCHANGED <<commitVars, tokenVars, scraperVars, siteVars, trackVars>>

(***************************************************************************)
(* Part 4. generate-config: the template files and the two generations     *)
(***************************************************************************)
\* The template files fetched from the client's repository.
TemplateFiles == <<"src/data/siteConfig.ts", "src/styles/theme.css">>

\* Mutant of TemplatesSettled: the wait ends with the first file fetched.
TemplatesSettledEarly(fetches) == \E i \in 1..Len(fetches) : fetches[i] = "ok"

\* Promise.all resolves when every fetch has resolved.
TemplatesSettled(fetches) == \A i \in 1..Len(fetches) : fetches[i] = "ok"

\* if (!githubOwner || !githubRepo) 400; else both fetchFileFromGitHub calls
\* are made, each running up to its fetch, and Promise.all is awaited.
ConfigCoordinates ==
    /\ api.pc = "coordinates"
    /\ \E present \in BOOLEAN :
          api' = IF ~present THEN Respond(api, 400, FALSE)
                 ELSE [Called(Called(api, "github"), "github")
                          EXCEPT !.pc = "templates",
                                 !.fetches = [i \in 1..Len(TemplateFiles) |-> "pending"]]
    /\ UNCHANGED <<commitVars, tokenVars, scraperVars, siteVars, trackVars>>

\* GitHub answers one of the fetches. A non-2xx answer makes
\* fetchFileFromGitHub throw, which rejects Promise.all and is caught (500);
\* the other fetch, if still in flight, answers to nobody.
TemplateFetchReturned ==
    /\ \E i \in 1..Len(api.fetches), ok \in BOOLEAN :
          /\ api.fetches[i] = "pending"
          /\ LET a == [api EXCEPT !.fetches[i] = IF ok THEN "ok" ELSE "failed"] IN
             api' = IF a.pc # "templates" THEN a
                    ELSE IF ~ok THEN Respond(a, 500, FALSE)
                    ELSE IF TemplatesSettled(a.fetches)
                    THEN [Called(a, "llm") EXCEPT !.pc = "configLlm"]
                    ELSE a
    /\ UNCHANGED <<commitVars, tokenVars, scraperVars, siteVars, trackVars>>

\* The model answers the siteConfig.ts call, then the theme.css call; a
\* call that throws is caught (500).
ConfigLlmReturned ==
    /\ api.pc = "configLlm"
    /\ \E answer \in LlmAnswers :
          LET a == [api EXCEPT !.llm = Append(@, answer)] IN
          api' = IF CallClaudeThrows(answer) THEN Respond(a, 500, FALSE)
                 ELSE IF Len(a.llm) < Len(TemplateFiles) THEN Called(a, "llm")
                 ELSE Respond(a, 200, TRUE)
    /\ UNCHANGED <<commitVars, tokenVars, scraperVars, siteVars, trackVars>>

(***************************************************************************)
(* Part 4. Specification                                                   *)
(***************************************************************************)
Requests ==
    { [IdleApi EXCEPT !.handler = h, !.method = m, !.auth = t, !.pc = "start"] :
        h \in Handlers, m \in Methods, t \in AuthHeaders }

ApiInit ==
    /\ InitCommitVars
    /\ InitTokenVars
    /\ InitScraperVars
    /\ InitSiteVars
    /\ InitTrackVars
    /\ api \in Requests

ApiNext ==
    \/ Enter
    \/ ValidateAuth
    \/ GetUserReturned
    \/ Body
    \/ ProgramReturned
    \/ RobotsReturned
    \/ SitemapReturned
    \/ FetchPageReturned
    \/ UploadReturned
    \/ TrackBegin
    \/ TrackLookupReturned
    \/ TrackUpdateReturned
    \/ TrackInsertReturned
    \/ CallClaudeReturned
    \/ ConfigCoordinates
    \/ TemplateFetchReturned
    \/ ConfigLlmReturned

ApiSpec == ApiInit /\ [][ApiNext]_vars

(***************************************************************************)
(* Part 4. Properties of the handlers                                      *)
(***************************************************************************)
Done == api.pc = "done"
ScrapeHandlers == { "scrape-page", "scrape-discover" }
\* The number of calls to service the request has issued.
CallsTo(service) == Cardinality({ i \in 1..Len(api.calls) : api.calls[i] = service })

\* C12: a page fetch that times out, returns a non-2xx status or a non-HTML
\* content type never makes a scrape request fail hard: in every scrape
\* handler that fetches a page, the request answers with a success response
\* in which the page is marked skipped.
C12_FetchFailureSkipped ==
    (Done /\ api.handler \in ScrapeHandlers /\ api.fetched \in {"timeout", "non-2xx", "non-html"})
        => (Ok(api.status) /\ api.success /\ api.skipped)

\* C13: once the ref update of a publish request has succeeded the response
\* is 200 success with the new commit SHA, whatever the edit tracking did;
\* and a scrape-page or scrape-discover request that came to upload the
\* snapshot answers 200 success whether the upload succeeded or failed.
C13_BestEffortNotSurfaced ==
    Done =>
        /\ (api.handler = "publish" /\ api.refUpdated) =>
              /\ api.status = 200
              /\ api.success
              /\ api.commitSha = NewCommit
        /\ (api.handler \in ScrapeHandlers /\ api.upload \in UploadOutcomes) =>
              /\ api.status = 200
              /\ api.success

\* A publish request whose client lookup succeeded, whose counter update
\* returned an error and whose history insert threw has answered.
C13_Witness ==
    /\ Done
    /\ api.handler = "publish"
    /\ api.tracking = <<"client", "error", "threw">>
    /\ api.status = 200
    /\ api.commitSha = NewCommit

C15_AuthBeforeAnything ==
    (api.handler \in Handlers /\ api.method = "POST" /\ ~LiveSession(api.auth)) =>
        /\ \A i \in 1..Len(api.calls) : api.calls[i] \notin Guarded
        /\ Done => api.status = 401

\* C19: isBlockedByRobots(path, rules) is true if and only if some rule is a
\* literal prefix of path, and pages_to_scrape of a discovery response holds
\* no URL whose path has one of the parsed disallow rules as a prefix,
\* whether it came from the homepage links or from the sitemap.
C19_DisallowedNotListed ==
    (Done /\ api.handler = "scrape-discover") =>
        LET rules == api.disallowed
            hasPrefix(path) ==
                \E i \in 1..Len(rules) : \E k \in 0..Len(path) : SubSeq(path, 1, k) = rules[i]
        IN
        /\ \A c \in api.checks : c.blocked <=> hasPrefix(c.path)
        /\ \A j \in 1..Len(api.pages_to_scrape) : ~hasPrefix(Tail(api.pages_to_scrape[j]))

\* A discovery answered with /b from the sitemap listed, while the homepage
\* link /a/b was looked up and found blocked by the rule /a.
C19_Witness ==
    /\ Done
    /\ api.handler = "scrape-discover"
    /\ api.disallowed = << <<"/", "a">> >>
    /\ [path |-> <<"/", "a", "/", "b">>, blocked |-> TRUE] \in api.checks
    /\ api.sitemap_urls # <<>>
    /\ api.pages_to_scrape = << <<"http://x.com", "/", "b">> >>

\* C22: in generate-config both template fetches are issued before either
\* result is awaited; no call to the language model is issued until both
\* fetches have succeeded; and when a fetch fails the request ends with 500
\* without any call to the language model.
C22_TemplatesFetchedJointly ==
    api.handler = "generate-config" =>
        /\ CallsTo("github") \in {0, Len(TemplateFiles)}
        /\ (api.pc = "templates" \/ api.fetches # <<>>) =>
              (Len(api.fetches) = Len(TemplateFiles) /\ CallsTo("github") = Len(TemplateFiles))
        /\ CallsTo("llm") > 0 =>
              \A i \in 1..Len(TemplateFiles) : api.fetches[i] = "ok"
        /\ (\E i \in 1..Len(api.fetches) : api.fetches[i] = "failed") =>
              (Done /\ api.status = 500 /\ CallsTo("llm") = 0)

\* A generate-config request fetched both files and ran both generations;
\* another ended with 500 on a failed fetch while the other was in flight.
C22_Witness ==
    /\ api.handler = "generate-config"
    /\ Done
    /\ \/ api.status = 200 /\ api.fetches = <<"ok", "ok">> /\ CallsTo("llm") = 2
       \/ api.status = 500 /\ api.fetches = <<"pending", "failed">>

\* C28: the homepage a discovery request fetched and extracted is never
\* listed again: no URL of pages_to_scrape normalizes to the URL of that
\* homepage, also when the fetch was redirected to another final URL.
C28_HomepageNotListedAgain ==
    (Done /\ api.handler = "scrape-discover" /\ api.status = 200) =>
        \A i \in 1..Len(api.pages_to_scrape) :
            NormalizeUrl(api.pages_to_scrape[i], BaseOrigin)
                # NormalizeUrl(api.finalUrl, BaseOrigin)

(***************************************************************************)
(* Part 5. create-site: repository, project, environment variables,       *)
(* deploy and client record, for one client, one request after another.   *)
(* GitHub and Vercel answer the existence checks truthfully or not at all. *)
(***************************************************************************)
\* The variables setVercelEnvVars sets, in its order.
EnvKeys ==
    <<"OPENROUTER_API_KEY", "GITHUB_TOKEN", "GITHUB_OWNER", "GITHUB_REPO", "SUPABASE_URL",
      "SUPABASE_ANON_KEY">>

\* The coordinates of the template repository, the default of client intake.
TemplateCoordinates == [github_owner |-> GITHUB_OWNER, github_repo |-> TEMPLATE_REPO]

StepResult(step, success, alreadyExisted) ==
    [step |-> step, success |-> success, alreadyExisted |-> alreadyExisted]

\* Mutant of StatusAccepted: every status is accepted.
StatusAcceptedAny(status) == TRUE
\* clientRecord.status !== 'setup' gives 400
StatusAccepted(status) == status = "setup"

\* Mutant of AlreadyExists: the existence check is ignored.
AlreadyExistsNever(checkOk) == FALSE
\* if (checkRes.ok) the step succeeds with alreadyExisted: true
AlreadyExists(checkOk) == checkOk

\* res.status(status).json({..., completedSteps})
RespondWithSteps(r, status) == [r EXCEPT !.pc = "done", !.status = status, !.withSteps = TRUE]
\* res.status(status).json({success: false, message}), no completedSteps
RespondPlain(r, status) == [r EXCEPT !.pc = "done", !.status = status]
\* The catch of the handler: 500 with the message of the error only.
Caught(r) == RespondPlain(r, 500)
\* completedSteps.push(result)
Push(r, result) == [r EXCEPT !.completedSteps = Append(@, result)]
\* A call is issued and awaited at pc.
Issue5(r, name, pc) == [r EXCEPT !.calls = Append(@, name), !.pc = pc]

\* An authenticated POST with a client_id: the client record is looked up.
CreateSiteBegin ==
    /\ site.r.pc \in {"idle", "done"}
    /\ site.invocations < MaxInvocations
    /\ site' = [site EXCEPT !.invocations = @ + 1,
                            !.r = Issue5(IdleCreateSite, "records:select", "lookup")]
    /\ UNCHANGED <<commitVars, tokenVars, scraperVars, apiVars, trackVars>>

\* The lookup answers: 404 on an error or no record, 400 unless the status
\* is "setup"; else Step A starts with the existence check of the repository.
LookupReturned ==
    /\ site.r.pc = "lookup"
    /\ \E found \in BOOLEAN :
          LET r == [site.r EXCEPT !.readStatus = IF found THEN site.client.status ELSE ""] IN
          site' = [site EXCEPT !.r =
                      IF ~found THEN RespondPlain(r, 404)
                      ELSE IF ~StatusAccepted(r.readStatus) THEN RespondPlain(r, 400)
                      ELSE Issue5([r EXCEPT !.slug = Slugify(site.client.client_name)],
                                  "github:get-repo", "checkRepo")]
    /\ UNCHANGED <<commitVars, tokenVars, scraperVars, apiVars, trackVars>>

\* createGitHubRepo, the existence check answers.
RepoCheckReturned ==
    /\ site.r.pc = "checkRepo"
    /\ \E outcome \in {"answered", "threw"} :
          site' = [site EXCEPT !.r =
                      IF outcome = "threw" THEN Caught(@)
                      ELSE IF AlreadyExists(@.slug \in site.repos)
                      THEN Issue5(Push(@, StepResult("create_repo", TRUE, TRUE)),
                                  "vercel:get-project", "checkProject")
                      ELSE Issue5(@, "github:generate", "generateRepo")]
    /\ UNCHANGED <<commitVars, tokenVars, scraperVars, apiVars, trackVars>>

\* createGitHubRepo, the generation from the template answers. GitHub
\* refuses a name that is taken.
GenerateReturned ==
    /\ site.r.pc = "generateRepo"
    /\ \E outcome \in {"ok", "error", "threw"} :
          /\ outcome = "ok" => site.r.slug \notin site.repos
          /\ site' = [site EXCEPT
                        !.repos = IF outcome = "ok" THEN @ \cup {site.r.slug} ELSE @,
                        !.r = CASE outcome = "threw" -> Caught(@)
                                [] outcome = "error" ->
                                      RespondWithSteps(
                                          Push(@, StepResult("create_repo", FALSE, FALSE)), 500)
                                [] outcome = "ok" ->
                                      Issue5(Push(@, StepResult("create_repo", TRUE, FALSE)),
                                             "vercel:get-project", "checkProject")]
    /\ UNCHANGED <<commitVars, tokenVars, scraperVars, apiVars, trackVars>>

\* createVercelProject, the existence check answers.
ProjectCheckReturned ==
    /\ site.r.pc = "checkProject"
    /\ \E outcome \in {"answered", "threw"} :
          site' = [site EXCEPT !.r =
                      IF outcome = "threw" THEN Caught(@)
                      ELSE IF AlreadyExists(@.slug \in site.projects)
                      THEN Issue5(Push(@, StepResult("create_project", TRUE, TRUE)),
                                  "vercel:env", "setEnv")
                      ELSE Issue5(@, "vercel:create-project", "createProject")]
    /\ UNCHANGED <<commitVars, tokenVars, scraperVars, apiVars, trackVars>>

\* createVercelProject, the creation answers. Vercel refuses a name that is
\* taken.
ProjectCreateReturned ==
    /\ site.r.pc = "createProject"
    /\ \E outcome \in {"ok", "error", "threw"} :
          /\ outcome = "ok" => site.r.slug \notin site.projects
          /\ site' = [site EXCEPT
                        !.projects = IF outcome = "ok" THEN @ \cup {site.r.slug} ELSE @,
                        !.r = CASE outcome = "threw" -> Caught(@)
                                [] outcome = "error" ->
                                      RespondWithSteps(
                                          Push(@, StepResult("create_project", FALSE, FALSE)), 500)
                                [] outcome = "ok" ->
                                      Issue5(Push(@, StepResult("create_project", TRUE, FALSE)),
                                             "vercel:env", "setEnv")]
    /\ UNCHANGED <<commitVars, tokenVars, scraperVars, apiVars, trackVars>>

\* response.status === 400 && errorText.includes('already')
DuplicateKey(outcome) == outcome = "already"

\* setVercelEnvVars, Vercel answers the POST of the next variable: set,
\* already set (a key that exists is not set again), another error, or no
\* answer.
EnvReturned ==
    /\ site.r.pc = "setEnv"
    /\ LET key == EnvKeys[Len(site.r.vars) + 1] IN
       \E outcome \in {"ok", "already", "error", "threw"} :
          /\ outcome = "ok" => key \notin site.env
          /\ outcome = "already" => key \in site.env
          /\ LET set == outcome = "ok" \/ DuplicateKey(outcome)
                 r == [site.r EXCEPT !.vars = Append(@, outcome)]
             IN
             site' = [site EXCEPT
                        !.env = IF outcome = "ok" THEN @ \cup {key} ELSE @,
                        !.r = IF outcome = "threw" THEN Caught(r)
                              ELSE IF ~set
                              THEN RespondWithSteps(
                                       Push(r, StepResult("set_env_vars", FALSE, FALSE)), 500)
                              ELSE IF Len(r.vars) < Len(EnvKeys)
                              THEN Issue5(r, "vercel:env", "setEnv")
                              ELSE Issue5(Push(r, StepResult("set_env_vars", TRUE, FALSE)),
                                          "vercel:deploy", "deploy")]
    /\ UNCHANGED <<commitVars, tokenVars, scraperVars, apiVars, trackVars>>

\* triggerDeploy answers; a non-2xx answer is logged and Step E follows.
DeployReturned ==
    /\ site.r.pc = "deploy"
    /\ \E outcome \in {"ok", "error", "threw"} :
          site' = [site EXCEPT
                     !.deployments = IF outcome = "ok" THEN @ + 1 ELSE @,
                     !.r = IF outcome = "threw" THEN Caught(@)
                           ELSE Issue5(Push(@, StepResult("trigger_deploy", outcome = "ok", FALSE)),
                                       "records:update", "update")]
    /\ UNCHANGED <<commitVars, tokenVars, scraperVars, apiVars, trackVars>>

\* Step E: the update of the client record answers.
UpdateReturned ==
    /\ site.r.pc = "update"
    /\ \E ok \in BOOLEAN :
          LET r == RespondWithSteps(
                       Push([site.r EXCEPT !.updated = ok], StepResult("update_client", ok, FALSE)),
                       IF ok THEN 200 ELSE 500)
          IN
          site' = [site EXCEPT
                     !.client = IF ok
                                THEN [@ EXCEPT !.status = "active",
                                               !.columns = [github_owner |-> GITHUB_OWNER,
                                                            github_repo |-> r.slug]]
                                ELSE @,
                     !.activatedIn = IF ok THEN r ELSE @,
                     !.r = r]
    /\ UNCHANGED <<commitVars, tokenVars, scraperVars, apiVars, trackVars>>

\* if (!owner || !repo) 400; else the request goes on against owner/repo.
Resolve(coordinates, provisioned) ==
    IF coordinates.github_owner = "" \/ coordinates.github_repo = ""
    THEN [NoResolution EXCEPT !.pc = "rejected", !.provisioned = provisioned]
    ELSE [pc |-> "resolved", provisioned |-> provisioned,
          owner |-> coordinates.github_owner, repo |-> coordinates.github_repo]

\* generate-commit: siteConfig.github_owner, siteConfig.github_repo
CommitCoordinates(client) == client.site_config
\* generate-config: client.github_owner, client.github_repo
ConfigRepository(client) == client.columns

\* An authenticated generate-commit request with a non-empty file list for
\* the client finds the record and resolves the repository.
GenerateCommitRequest ==
    /\ site.r.pc \in {"idle", "done"}
    /\ site.commit.pc = "idle"
    /\ site' = [site EXCEPT !.commit = Resolve(CommitCoordinates(site.client),
                                               site.activatedIn # IdleCreateSite)]
    /\ UNCHANGED <<commitVars, tokenVars, scraperVars, apiVars, trackVars>>

\* An authenticated generate-config request for the client finds the record
\* and resolves the repository.
GenerateConfigRequest ==
    /\ site.r.pc \in {"idle", "done"}
    /\ site.config.pc = "idle"
    /\ site' = [site EXCEPT !.config = Resolve(ConfigRepository(site.client),
                                               site.activatedIn # IdleCreateSite)]
    /\ UNCHANGED <<commitVars, tokenVars, scraperVars, apiVars, trackVars>>

(***************************************************************************)
(* Part 5. Specification                                                   *)
(***************************************************************************)
\* The client record as intake or an operator left it: any status, and in
\* site_config no coordinates, those of the template, or those of a
\* repository named after the client.
ClientStatuses == {"setup", "active", "paused"}
OwnCoordinates == [github_owner |-> GITHUB_OWNER, github_repo |-> Slugify(ClientName)]
SiteInit ==
    /\ InitCommitVars
    /\ InitTokenVars
    /\ InitScraperVars
    /\ InitApiVars
    /\ InitTrackVars
    /\ \E status \in ClientStatuses,
          coordinates \in {NoCoordinates, TemplateCoordinates, OwnCoordinates} :
          site = [IdleSite EXCEPT !.client.status = status,
                                  !.client.site_config = coordinates]

SiteNext ==
    \/ CreateSiteBegin
    \/ LookupReturned
    \/ RepoCheckReturned
    \/ GenerateReturned
    \/ ProjectCheckReturned
    \/ ProjectCreateReturned
    \/ EnvReturned
    \/ DeployReturned
    \/ UpdateReturned
    \/ GenerateCommitRequest
    \/ GenerateConfigRequest

SiteSpec == SiteInit /\ [][SiteNext]_vars

(***************************************************************************)
(* Part 5. Properties of create-site                                       *)
(***************************************************************************)
SiteDone == site.r.pc = "done"
StepOrder ==
    <<"create_repo", "create_project", "set_env_vars", "trigger_deploy", "update_client">>
\* The step a call belongs to, 0 for the lookup of the client record.
StepOf(name) ==
    CASE name = "records:select" -> 0
      [] name \in {"github:get-repo", "github:generate"} -> 1
      [] name \in {"vercel:get-project", "vercel:create-project"} -> 2
      [] name = "vercel:env" -> 3
      [] name = "vercel:deploy" -> 4
      [] name = "records:update" -> 5
SiteCalled(name) == \E i \in 1..Len(site.r.calls) : site.r.calls[i] = name

\* C23: create-site runs its steps in the order repository, project,
\* environment variables, deploy, client record; a failure of one of the
\* first three steps ends the request with 500 and a completedSteps list
\* ending in the failed step, no later step attempted; a failure of the
\* deploy trigger does not prevent the update of the client record.
C23_StepsInOrder ==
    LET r == site.r IN
    /\ \A i \in 1..(Len(r.calls) - 1) : StepOf(r.calls[i]) <= StepOf(r.calls[i + 1])
    /\ \A i \in 1..Len(r.completedSteps) : r.completedSteps[i].step = StepOrder[i]
    /\ (SiteDone /\ r.status = 500 /\ StepOf(Last(r.calls)) \in 1..3) =>
          /\ r.withSteps
          /\ r.completedSteps # <<>>
          /\ Last(r.completedSteps).step = StepOrder[StepOf(Last(r.calls))]
          /\ ~Last(r.completedSteps).success
    /\ (SiteDone /\ SiteCalled("vercel:deploy")) => SiteCalled("records:update")

\* The steps of r that found their resource already there.
FoundExisting(r) ==
    { i \in 1..Len(r.completedSteps) : r.completedSteps[i].alreadyExisted }

ProvisioningSucceeded(r) ==
    /\ Len(r.completedSteps) >= 3
    /\ \A i \in 1..3 : r.completedSteps[i].success

\* C25: the status of the client record becomes "active" only in a
\* create-site request that read the status "setup" and whose repository,
\* project and environment-variable steps succeeded; a request that read
\* another status ends with 400 and issues no GitHub or Vercel call and no
\* update of the record.
C25_ActiveOnlyFromSetup ==
    [][ /\ (site'.client.status = "active" /\ site.client.status # "active") =>
              /\ site.r.pc = "update"
              /\ site.r.readStatus = "setup"
              /\ ProvisioningSucceeded(site.r)
        /\ site'.r.readStatus \notin {"", "setup"} =>
              /\ site'.r.pc = "done"
              /\ site'.r.status = 400
              /\ site'.r.calls = <<"records:select">>
              /\ ~site'.r.updated
              /\ site'.client = site.client ]_vars

\* A request activated the client; a later request for it was refused.
C25_Witness ==
    /\ site.activatedIn # IdleCreateSite
    /\ site.client.status = "active"
    /\ SiteDone
    /\ site.r.readStatus = "active"
    /\ site.r.status = 400

\* C30: after a successful create-site request for a client, a
\* generate-commit request for that client resolves the owner and the
\* repository that create-site stored on the record, as generate-config
\* does, and is not rejected for missing repository coordinates.
C30_CommitsToProvisionedRepository ==
    (site.commit.pc # "idle" /\ site.commit.provisioned) =>
        /\ site.commit.pc = "resolved"
        /\ site.commit.owner = site.client.columns.github_owner
        /\ site.commit.repo = site.client.columns.github_repo
        /\ (site.config.pc # "idle" /\ site.config.provisioned) =>
              (site.config.owner = site.commit.owner /\ site.config.repo = site.commit.repo)

(***************************************************************************)
(* Part 6. The edit tracking of publish requests for one client, each     *)
(* after its ref update, against the one client record.                   *)
(***************************************************************************)
\* edits.length of a request
EditCounts == {1, 2}

\* total_edits: (client.total_edits || 0) + edits.length
NewTotal(stored, read, edits) == read + edits

\* The ref update of a publish request succeeded: the client record is
\* looked up by github_repo.
EditTrackingBegin ==
    /\ \E r \in Publishers, n \in EditCounts :
          /\ track.reqs[r].pc = "idle"
          /\ track' = [track EXCEPT !.reqs[r] = [@ EXCEPT !.pc = "lookup", !.edits = n]]
    /\ UNCHANGED <<commitVars, tokenVars, scraperVars, apiVars, siteVars>>

\* The lookup answers with the record as it is now, or with none.
EditLookupReturned ==
    /\ \E r \in Publishers, found \in BOOLEAN :
          /\ track.reqs[r].pc = "lookup"
          /\ track' = [track EXCEPT !.reqs[r] =
                          IF found
                          THEN [@ EXCEPT !.pc = "update", !.total_edits = track.total_edits]
                          ELSE [@ EXCEPT !.pc = "done"]]
    /\ UNCHANGED <<commitVars, tokenVars, scraperVars, apiVars, siteVars>>

\* The update of the client record is applied and answered, or answered with
\* an error, which the handler does not look at.
EditUpdateReturned ==
    /\ \E r \in Publishers, ok \in BOOLEAN :
          /\ track.reqs[r].pc = "update"
          /\ track' = [track EXCEPT
                         !.total_edits = IF ok
                                         THEN NewTotal(@, track.reqs[r].total_edits,
                                                       track.reqs[r].edits)
                                         ELSE @,
                         !.reqs[r] = [@ EXCEPT !.pc = "insert", !.tracked = ok]]
    /\ UNCHANGED <<commitVars, tokenVars, scraperVars, apiVars, siteVars>>

\* The insert of the history rows is answered.
EditInsertReturned ==
    /\ \E r \in Publishers, ok \in BOOLEAN :
          /\ track.reqs[r].pc = "insert"
          /\ track' = [track EXCEPT
                         !.history = IF ok THEN @ + track.reqs[r].edits ELSE @,
                         !.reqs[r] = [@ EXCEPT !.pc = "done", !.tracked = @ /\ ok]]
    /\ UNCHANGED <<commitVars, tokenVars, scraperVars, apiVars, siteVars>>

\* The client record before the requests: total_edits null (0) or a count.
TrackInit ==
    /\ InitCommitVars
    /\ InitTokenVars
    /\ InitScraperVars
    /\ InitApiVars
    /\ InitSiteVars
    /\ \E n \in {0, 1} : track = [IdleTrack EXCEPT !.total_edits = n, !.before = n]

TrackNext ==
    \/ EditTrackingBegin
    \/ EditLookupReturned
    \/ EditUpdateReturned
    \/ EditInsertReturned

TrackSpec == TrackInit /\ [][TrackNext]_vars

\* The edits of the requests in rs together.
RECURSIVE EditsOf(_)
EditsOf(rs) ==
    IF rs = {} THEN 0
    ELSE LET r == CHOOSE x \in rs : TRUE IN track.reqs[r].edits + EditsOf(rs \ {r})

\* C29: when two publish requests for the same client both complete their
\* edit tracking, total_edits afterwards equals its value before plus the
\* number of edits of both requests, under every interleaving.
C29_NoLostEdit ==
    (\A r \in Publishers : track.reqs[r].pc = "done" /\ track.reqs[r].tracked) =>
        track.total_edits = track.before + EditsOf(Publishers)

====
